---------------------------- MODULE Spec2Model ----------------------------
(***************************************************************************)
(* Terminal-Chat-Program: the cipher envelope (lib/encryption.py), the      *)
(* permission ledger (lib/file_permissions.py), the relay (lib/server.py)   *)
(* and the client's file sender (lib/client.py).                            *)
(*                                                                          *)
(* Text is a sequence of one-string tokens; a token is a character or a     *)
(* fixed protocol word.  A line on the socket is a tagged record: a plain   *)
(* line (username, file marker) or a cipher envelope.                       *)
(***************************************************************************)
EXTENDS Integers, Sequences, FiniteSets, TLC

VARIABLES
    c_pc, c_plain, c_pass, c_env, c_pass2, c_pad, c_out,   \* cipher round trip
    permissions,     \* FilePermissions.permissions: filename -> record
    metadata,        \* the ledger's persisted JSON file
    clients,         \* ChatServer.clients: sequence of [sock, user]
    running,         \* ChatServer.running
    main_pc,         \* ChatServer.run: "accept", "recv", "grace", "closing", "stopped"
    main_sock,       \* the socket accept() returned, while its username is read
    exit_cause,      \* why run left its accept loop
    clients_lock,    \* ChatServer.clients_lock: whether held, and by which thread
    notified,        \* where a specification watches the shutdown: the sockets
                     \* registered when run's finally began, until run returns
    conn,            \* per socket: handler position and locals, socket health
    dir,             \* shared folder: path -> inode
    inodes,          \* inode -> bytes
    relay_target,    \* ChatServer.relay_target / relay_sender
    sent,            \* the sendall calls of the latest step, in order
    last,            \* the latest step: [op, sock, arg]
    rx_pc,           \* receive_messages: "off", "read", "ended", "exited"
    rx_wire,         \* lines written to the client's socket, not yet read
    rx_done,         \* the lines receive_messages has read
    rx_file_name,    \* receive_messages: file_name
    rx_temp_file,    \* receive_messages: temp_file, the path it was opened on
    rx_inbox,        \* the client's inbox folder: path -> bytes
    rx_shown,        \* the messages the client displayed
    x_user,          \* the modelled client: its username
    x_msg,           \* send_messages: msg, the line the user typed
    x_pc, x_file, x_name, x_target, x_i,   \* ChatClient.send_file in progress
    wire             \* lines the client wrote that the relay has not read yet

cipherVars == <<c_pc, c_plain, c_pass, c_env, c_pass2, c_pad, c_out>>
ledgerVars == <<permissions, metadata>>
mainVars == <<running, main_pc, main_sock, exit_cause, notified, clients_lock>>
fsVars == <<dir, inodes>>
recvVars == <<rx_pc, rx_wire, rx_done, rx_file_name, rx_temp_file, rx_inbox, rx_shown>>
clientVars == <<x_user, x_msg, x_pc, x_file, x_name, x_target, x_i, recvVars>>
xferVars == <<clientVars, wire>>
relayVars == <<clients, mainVars, conn, fsVars, relay_target, sent, last>>
vars == <<cipherVars, ledgerVars, relayVars, xferVars>>

---------------------------------------------------------------------------
(* Bounds *)

MaxTextLen == 3
MaxClock == 1
MaxConn == 2
MaxFileLen == 1
MaxClientLines == 1
MaxDownLines == 3
MaxUpLines == 3

---------------------------------------------------------------------------
(* Text helpers: Python str operations over token sequences *)

Whitespace == {" ", "\n", "\r", "\t"}

RECURSIVE LStrip(_)
LStrip(t) ==
    IF t = <<>> THEN <<>>
    ELSE IF Head(t) \in Whitespace THEN LStrip(Tail(t)) ELSE t

RECURSIVE RStrip(_)
RStrip(t) ==
    IF t = <<>> THEN <<>>
    ELSE IF t[Len(t)] \in Whitespace THEN RStrip(SubSeq(t, 1, Len(t) - 1)) ELSE t

\* str.strip(), no argument: drops leading and trailing whitespace
Strip(t) == RStrip(LStrip(t))

\* str.startswith(tok) for a one-token prefix
StartsWith(t, tok) == Len(t) >= 1 /\ t[1] = tok

TextsUpTo(alphabet, n) == UNION {[1..k -> alphabet] : k \in 0..n}

---------------------------------------------------------------------------
(* Cipher: lib/encryption.py *)

Passwords == {"pw1", "pw2"}

\* What openssl makes of an envelope under a wrong password, which depends on
\* the random salt of that envelope: the garbled last block fails the padding
\* check ("reject", exit status 1), or passes it with bytes that are not
\* UTF-8, or passes it with UTF-8 bytes.
PadChecks == {"reject", "pad_ok_not_utf8", "pad_ok_utf8"}

PlainLine(t) == [kind |-> "plain", text |-> t, key |-> ""]
Envelope(t, k) == [kind |-> "env", text |-> t, key |-> k]

\* What a wrong password makes of an envelope whose padding check passes
Garbage == <<"?">>

\* Encryption.encrypt: one line of base64 (line breaks removed), never None
\* for any text that encodes (EncryptCall below has the text of the line)
Encrypt(text, password) == Envelope(text, password)

DecOk(t)  == [tag |-> "ok", text |-> t]
DecNone   == [tag |-> "none", text |-> <<>>]
DecRaise  == [tag |-> "raise", text |-> <<>>]

\* The value decrypt returns when openssl exits 0 with plaintext p
DecryptStdout(p) == DecOk(Strip(p))

\* decrypt without its except clause: openssl's failure is raised, not None
DecryptUncaught(line, password, pad) ==
    IF line.kind # "env" THEN DecRaise
    ELSE IF line.key = password THEN DecryptStdout(line.text)
    ELSE IF pad = "pad_ok_utf8" THEN DecryptStdout(Garbage)
    ELSE DecRaise

\* Encryption.decrypt: None on CalledProcessError; stdout.decode().strip()
\* otherwise; decode() raises UnicodeDecodeError outside the try's except
Decrypt(line, password, pad) ==
    IF line.kind # "env" THEN DecNone
    ELSE IF line.key = password THEN DecryptStdout(line.text)
    ELSE IF pad = "reject" THEN DecNone
    ELSE IF pad = "pad_ok_not_utf8" THEN DecRaise
    ELSE DecryptStdout(Garbage)

---------------------------------------------------------------------------
(* base64, as the standard library computes it *)

B64Chars ==
    <<"A","B","C","D","E","F","G","H","I","J","K","L","M","N","O","P",
      "Q","R","S","T","U","V","W","X","Y","Z","a","b","c","d","e","f",
      "g","h","i","j","k","l","m","n","o","p","q","r","s","t","u","v",
      "w","x","y","z","0","1","2","3","4","5","6","7","8","9","+","/">>
B64Pad == "="
B64Alphabet == {B64Chars[i] : i \in 1..64}
B64Val(c) == (CHOOSE i \in 1..64 : B64Chars[i] = c) - 1

Pow64(k) == IF k = 0 THEN 1 ELSE IF k = 1 THEN 64 ELSE IF k = 2 THEN 4096 ELSE 262144
Pow256(k) == IF k = 0 THEN 1 ELSE IF k = 1 THEN 256 ELSE 65536

ByteAt(bytes, i) == IF i <= Len(bytes) THEN bytes[i] ELSE 0

\* base64.b64encode(data).decode(): 4 characters per 3 bytes, '=' padded
B64Encode(bytes) ==
    [j \in 1..(4 * ((Len(bytes) + 2) \div 3)) |->
        LET g == (j - 1) \div 4
            k == (j - 1) % 4
            word == ByteAt(bytes, 3 * g + 1) * 65536
                      + ByteAt(bytes, 3 * g + 2) * 256
                      + ByteAt(bytes, 3 * g + 3)
        IN  IF k >= 2 /\ 3 * g + k > Len(bytes) THEN B64Pad
            ELSE B64Chars[((word \div Pow64(3 - k)) % 64) + 1]]

B64Error == [ok |-> FALSE, bytes |-> <<>>]

\* the characters b64decode keeps (validate=False discards the others)
B64Keep(text) == SelectSeq(text, LAMBDA c : c \in B64Alphabet \cup {B64Pad})

SextetAt(t, i) == IF t[i] = B64Pad THEN 0 ELSE B64Val(t[i])

\* base64.b64decode(text): binascii.Error when the kept characters are not
\* whole, correctly padded groups of four
B64Decode(text) ==
    LET t == B64Keep(text)
        n == Len(t)
        pads == IF n >= 2 /\ t[n] = B64Pad /\ t[n - 1] = B64Pad THEN 2
                ELSE IF n >= 1 /\ t[n] = B64Pad THEN 1 ELSE 0
    IN  IF n % 4 # 0 \/ \E i \in 1..(n - pads) : t[i] = B64Pad
        THEN B64Error
        ELSE [ok |-> TRUE,
              bytes |-> [i \in 1..(3 * (n \div 4) - pads) |->
                  LET g == (i - 1) \div 3
                      k == (i - 1) % 3
                      word == SextetAt(t, 4 * g + 1) * 262144
                                + SextetAt(t, 4 * g + 2) * 4096
                                + SextetAt(t, 4 * g + 3) * 64
                                + SextetAt(t, 4 * g + 4)
                  IN  (word \div Pow256(2 - k)) % 256]]

---------------------------------------------------------------------------
(* Encryption.encrypt down to the characters of its result *)

\* a code point that str.encode() refuses: what input() makes of a byte that
\* is not UTF-8 (error handler surrogateescape)
Surrogate == "lone surrogate"

\* b'Salted__', the salt, and the ciphertext: the text padded to whole blocks
\* of 16 bytes
SaltedBytes(n, salt) ==
    <<83, 97, 108, 116, 101, 100, 95, 95>>
      \o [i \in 1..(8 + 16 * (n \div 16 + 1)) |-> (i * 37 + salt * 11 + n) % 256]

\* openssl enc -a: base64 in lines of 64 characters, each ended by a newline
RECURSIVE Base64Lines(_)
Base64Lines(b64) ==
    IF Len(b64) <= 64 THEN b64 \o <<"\n">>
    ELSE SubSeq(b64, 1, 64) \o <<"\n">> \o Base64Lines(SubSeq(b64, 65, Len(b64)))

\* what encrypt makes of openssl's output, were the replace calls left out
OneLineStripOnly(out) == Strip(out)

\* result.stdout.decode().strip().replace('\n', '').replace('\r', '')
OneLine(out) == SelectSeq(Strip(out), LAMBDA c : c \notin {"\n", "\r"})

\* Encryption.encrypt(text): text.encode() raises for a text that does not
\* encode; openssl enc exits 0 for every byte string
EncryptCall(text, salt) ==
    IF \E i \in 1..Len(text) : text[i] = Surrogate THEN DecRaise
    ELSE DecOk(OneLine(Base64Lines(B64Encode(SaltedBytes(Len(text), salt)))))

---------------------------------------------------------------------------
(* Permission ledger: lib/file_permissions.py *)

\* Python's None and a present value
NoneV == [some |-> FALSE, v |-> <<>>]
Some(x) == [some |-> TRUE, v |-> x]

alice == <<"alice">>
bob == <<"bob">>
carol == <<"carol">>
Users == {alice, bob, carol}
doc == <<"doc">>
pic == <<"pic">>
dave == <<"dave">>
erin == <<"erin">>
\* a filename with a directory part, of a directory the shared folder lacks
NoDirName == <<"nodir", "/", "x">>

\* metadata_file = os.path.join(data_dir, 'file_permissions.json'), as seen
\* from the shared folder data_dir/shared
LedgerName == <<"..", "/", "file_permissions.json">>

NoPermissions == [f \in {} |-> 0]

\* json.dump of one stored value: None -> null, str -> string, int -> number
JNull == [t |-> "null", s |-> <<>>, n |-> 0]
JStr(x) == [t |-> "str", s |-> x, n |-> 0]
JNum(k) == [t |-> "num", s |-> <<>>, n |-> k]
JsonOfOptAsText(o) == IF o.some THEN JStr(o.v) ELSE JStr(<<"None">>)
JsonOfOpt(o) == IF o.some THEN JStr(o.v) ELSE JNull
OptOfJson(j) == IF j.t = "null" THEN NoneV ELSE Some(j.s)

JsonDump(perms) ==
    [f \in DOMAIN perms |->
        [uploader    |-> JStr(perms[f].uploader),
         for         |-> JsonOfOpt(perms[f].for),
         uploaded_at |-> JNum(perms[f].uploaded_at),
         size        |-> JNum(perms[f].size)]]

JsonLoad(d) ==
    [f \in DOMAIN d |->
        [uploader    |-> d[f].uploader.s,
         for         |-> OptOfJson(d[f].for),
         uploaded_at |-> d[f].uploaded_at.n,
         size        |-> d[f].size.n]]

NoMetadata == [state |-> "absent", doc |-> NoPermissions]
CorruptMetadata == [state |-> "corrupt", doc |-> NoPermissions]

\* FilePermissions.load_permissions: {} when the file is absent or unreadable
LoadPermissions(meta) ==
    IF meta.state = "ok" THEN JsonLoad(meta.doc) ELSE NoPermissions

\* FilePermissions.save_permissions: the whole mapping rewritten
SavePermissions(perms) == [state |-> "ok", doc |-> JsonDump(perms)]

\* FilePermissions.add_file: the mapping after permissions[filename] = {...}
\* add_file that forgets the recipient
AddFileForNobody(perms, filename, uploader, for_user, size, now) ==
    [f \in DOMAIN perms \cup {filename} |->
        IF f = filename
        THEN [uploader |-> uploader, for |-> NoneV,
              uploaded_at |-> now, size |-> size]
        ELSE perms[f]]

AddFile(perms, filename, uploader, for_user, size, now) ==
    [f \in DOMAIN perms \cup {filename} |->
        IF f = filename
        THEN [uploader |-> uploader, for |-> for_user,
              uploaded_at |-> now, size |-> size]
        ELSE perms[f]]

\* FilePermissions.remove_file: the mapping after del permissions[filename]
RemoveFile(perms, filename) ==
    [f \in DOMAIN perms \ {filename} |-> perms[f]]

ReasonPublic == <<"Public file">>
ReasonUploader == <<"You uploaded this file">>
ReasonRecipient(perm) == <<"File shared with you by ">> \o perm.uploader
ReasonPrivate(perm) ==
    <<"Private file (from ">> \o perm.uploader \o <<" for ">>
        \o perm.for.v \o <<")">>

\* can_download that allows everyone
CanDownloadAnyone(perms, filename, username) == <<TRUE, ReasonPublic>>

\* can_download without the recipient branch
CanDownloadUploaderOnly(perms, filename, username) ==
    IF filename \notin DOMAIN perms THEN <<TRUE, ReasonPublic>>
    ELSE LET perm == perms[filename] IN
         IF ~perm.for.some THEN <<TRUE, ReasonPublic>>
         ELSE IF username = perm.uploader THEN <<TRUE, ReasonUploader>>
         ELSE <<FALSE, ReasonPrivate(perm)>>

\* FilePermissions.can_download: <<allowed, reason>>
CanDownload(perms, filename, username) ==
    IF filename \notin DOMAIN perms THEN <<TRUE, ReasonPublic>>
    ELSE LET perm == perms[filename] IN
         IF ~perm.for.some THEN <<TRUE, ReasonPublic>>
         ELSE IF username = perm.uploader THEN <<TRUE, ReasonUploader>>
         ELSE IF username = perm.for.v THEN <<TRUE, ReasonRecipient(perm)>>
         ELSE <<FALSE, ReasonPrivate(perm)>>

\* get_file_info without the recipient branch
FileInfoUploaderOnly(perms, filename, username) ==
    IF filename \notin DOMAIN perms THEN filename \o <<" (public)">>
    ELSE LET perm == perms[filename] IN
         IF ~perm.for.some
         THEN filename \o <<" (public, uploaded by ">> \o perm.uploader \o <<")">>
         ELSE IF username = perm.uploader
         THEN filename \o <<" (private, for ">> \o perm.for.v \o <<")">>
         ELSE filename \o <<" (private)">>

\* FilePermissions.get_file_info
FileInfo(perms, filename, username) ==
    IF filename \notin DOMAIN perms THEN filename \o <<" (public)">>
    ELSE LET perm == perms[filename] IN
         IF ~perm.for.some
         THEN filename \o <<" (public, uploaded by ">> \o perm.uploader \o <<")">>
         ELSE IF username = perm.uploader
         THEN filename \o <<" (private, for ">> \o perm.for.v \o <<")">>
         ELSE IF username = perm.for.v
         THEN filename \o <<" (private, from ">> \o perm.uploader \o <<")">>
         ELSE filename \o <<" (private)">>

\* FilePermissions.list_files_for_user: one triple per filename, in order
ListFilesForUser(perms, username, all_files) ==
    [i \in 1..Len(all_files) |->
        <<all_files[i], FileInfo(perms, all_files[i], username),
          CanDownload(perms, all_files[i], username)[1]>>]

---------------------------------------------------------------------------
(* The shared folder: directory entries over inodes, as open('wb'), write,
   os.rename, os.path.isfile, os.path.getsize and read() act on them *)

NoTemp == [some |-> FALSE, ino |-> 0, pos |-> 0]
EmptyDir == [q \in {} |-> 0]

TmpPath(file_name) == file_name \o <<".tmp">>

IsFile(d, path) == path \in DOMAIN d

\* open(path, 'wb') raises: the shared folder has no subdirectories; its
\* parent directory exists
OpenRaises(path) ==
    \E i \in 1..Len(path) : \E j \in 1..(i - 1) :
        path[i] = "/" /\ path[j] \notin {"..", "/"}

\* the inode open(path, 'wb') yields: the existing one (truncated) or a new one
OpenIno(d, ino, path) ==
    IF path \in DOMAIN d THEN d[path]
    ELSE CHOOSE i \in 1..(Cardinality(DOMAIN ino) + 1) : i \notin DOMAIN ino

DirAfterOpen(d, ino, path) ==
    [q \in DOMAIN d \cup {path} |-> IF q = path THEN OpenIno(d, ino, path) ELSE d[q]]

InodesAfterOpen(d, ino, path) ==
    [i \in DOMAIN ino \cup {OpenIno(d, ino, path)} |->
        IF i = OpenIno(d, ino, path) THEN <<>> ELSE ino[i]]

\* a file object that is never closed once its name is bound anew
AfterRebindLeak(old, ino) == old \cup {ino}

\* temp_file = open(...): the inodes the handler has open afterwards.  The
\* file object temp_file named before loses its last reference and is
\* closed with it
AfterRebind(old, ino) == {ino}

\* file.write(data) at the file object's own position
WriteAt(content, pos, data) ==
    [i \in 1..(IF pos + Len(data) > Len(content) THEN pos + Len(data) ELSE Len(content)) |->
        IF i > pos /\ i <= pos + Len(data) THEN data[i - pos]
        ELSE IF i <= Len(content) THEN content[i] ELSE 0]

\* os.rename(src, dst): dst names src's inode, src is gone
DirAfterRename(d, src, dst) ==
    [q \in (DOMAIN d \ {src}) \cup {dst} |-> IF q = dst THEN d[src] ELSE d[q]]

\* inodes neither named by the directory nor held open are freed
LiveInodes(d, ino, held) ==
    [i \in {j \in DOMAIN ino : j \in held \/ \E q \in DOMAIN d : d[q] = j} |-> ino[i]]

FileBytes(d, ino, path) == ino[d[path]]

---------------------------------------------------------------------------
(* Protocol lines and messages: lib/server.py, lib/client.py *)

ServerPassword == "pw1"
ServerName == <<"Server">>
ChunkSize == 512

FileBeginLine(name, target) ==
    PlainLine(IF target.some THEN <<"__FILE__:">> \o name \o <<"@">> \o target.v
              ELSE <<"__FILE__:">> \o name)
FileEndLine == PlainLine(<<"__END__">>)

\* '@' in s, and s.rsplit('@', 1)
LastAt(t) == CHOOSE i \in 1..Len(t) : t[i] = "@" /\ \A j \in (i + 1)..Len(t) : t[j] # "@"
HasAt(t) == \E i \in 1..Len(t) : t[i] = "@"
BeforeLastAt(t) == SubSeq(t, 1, LastAt(t) - 1)
AfterLastAt(t) == SubSeq(t, LastAt(t) + 1, Len(t))

\* s.split(':', 1)
HasColon(t) == \E i \in 1..Len(t) : t[i] = ":"
FirstColon(t) == CHOOSE i \in 1..Len(t) : t[i] = ":" /\ \A j \in 1..(i - 1) : t[j] # ":"

\* a chunking that leaves out the last, shorter chunk
ChunksFullOnly(b64, size) ==
    [k \in 1..(Len(b64) \div size) |-> SubSeq(b64, (k - 1) * size + 1, k * size)]

\* b64_data[i:i+chunk_size] for i in range(0, len(b64_data), chunk_size)
Chunks(b64, size) ==
    [k \in 1..((Len(b64) + size - 1) \div size) |->
        SubSeq(b64, (k - 1) * size + 1,
               IF k * size < Len(b64) THEN k * size ELSE Len(b64))]

JoinNotice(u) == <<"*** ">> \o u \o <<" joined the chat ***">>
LeaveNotice(u) == <<"*** ">> \o u \o <<" left the chat ***">>
ShutdownNotice == <<"*** Server is shutting down ***">>
TakenError(u) ==
    <<"Error: Username '">> \o u
        \o <<"' is already taken. Please reconnect with a different username.">>
ChatText(u, msg) ==
    IF u = ServerName THEN <<"\\033[1;35m">> \o u \o <<":\\033[0m ">> \o msg
    ELSE u \o <<": ">> \o msg
NotFoundError(f) == <<"Error: File '">> \o f \o <<"' not found in shared folder">>
DeniedError(f, reason) == <<"Error: Cannot download '">> \o f \o <<"'. ">> \o reason
OfflineError(u) == <<"Error: User '">> \o u \o <<"' not found or offline">>
PrivateConfirm(f, t) == <<"(check mark) File ">> \o f \o <<" uploaded privately for ">> \o t
PrivateNotice(u, f) == <<"*** ">> \o u \o <<" sent you a private file: ">> \o f \o <<" ***">>
\* the beginning of a listing's entry: newline, two spaces, the sign
AllowedMark == "\n  (check mark) "
DeniedMark == "\n  (cross) "
PublicNotice(u, f) == <<"*** ">> \o u \o <<" uploaded file: ">> \o f \o <<" ***">>

---------------------------------------------------------------------------
(* The connection registry: ChatServer.clients under clients_lock *)

\* sock.sendall succeeds: the socket is open here and the peer takes the bytes
WriteOk(cn, sock) == cn[sock].open /\ cn[sock].wok

WriteRec(cn, sock, line) == [to |-> sock, line |-> line, ok |-> WriteOk(cn, sock)]

\* broadcast without its sender exclusion
RecipientsAll(cl, sender) == cl

\* broadcast's  if username != sender_username  (sender None: nobody excluded)
Recipients(cl, sender) ==
    SelectSeq(cl, LAMBDA c : ~(sender.some /\ c.user = sender.v))

\* the sendall calls of one broadcast, in registry order
BroadcastWrites(cl, cn, line, sender) ==
    [i \in 1..Len(Recipients(cl, sender)) |->
        WriteRec(cn, Recipients(cl, sender)[i].sock, line)]

\* the registry after broadcast removed its dead clients
AfterBroadcast(cl, cn, sender) ==
    SelectSeq(cl, LAMBDA c :
        (sender.some /\ c.user = sender.v) \/ WriteOk(cn, c.sock))

\* the duplicate check left out
RegisteredNever(cl, u) == FALSE

\* username in [u for s, a, u in self.clients]
Registered(cl, u) == \E i \in 1..Len(cl) : cl[i].user = u
InRegistry(cl, s) == \E i \in 1..Len(cl) : cl[i].sock = s
FirstNamed(cl, u) == CHOOSE i \in 1..Len(cl) : cl[i].user = u /\ \A j \in 1..(i - 1) : cl[j].user # u

\* send_to_client: the one sendall to the first session named username
UnicastWrites(cl, cn, username, line) ==
    IF Registered(cl, username)
    THEN <<WriteRec(cn, cl[FirstNamed(cl, username)].sock, line)>>
    ELSE <<>>

\* a unicast that reports success whenever it found the username
SendToClientFound(cl, cn, username) == Registered(cl, username)

\* send_to_client's return value: True from the try of the session found,
\* False from its except, False when the loop ends without a match
SendToClient(cl, cn, username) ==
    /\ Registered(cl, username)
    /\ WriteOk(cn, cl[FirstNamed(cl, username)].sock)

\* a removal that takes every session with it
WithoutSockAll(cl, s) == <<>>

\* self.clients.remove((sock, addr, username)) when present
WithoutSock(cl, s) == SelectSeq(cl, LAMBDA c : c.sock # s)

---------------------------------------------------------------------------
(* Initial values of the parts a specification leaves alone *)

Socks == 1..MaxConn

FreeConn ==
    [pc |-> "free", user |-> <<>>, wok |-> TRUE, open |-> FALSE,
     file_name |-> NoneV, file_target |-> NoneV, temp |-> NoTemp,
     files |-> NoneV, iter |-> 0, dead |-> <<>>, after |-> "",
     b64_data |-> <<>>, sinks |-> {}, filepath |-> <<>>]

\* what a step records of itself: the operation, its socket, its argument and
\* the registry as it was when the step began
Step(op, s, arg, before) == [op |-> op, sock |-> s, arg |-> arg, before |-> before]
\* a step no property looks at leaves no record
NoLast == Step("", 0, <<>>, <<>>)
NoRelayTarget == [some |-> FALSE, target |-> <<>>, filename |-> <<>>, sender |-> <<>>]

\* threading.Lock(): free, or held by a thread (a handler is named by its
\* socket, the thread of run by 0)
Unlocked == [held |-> FALSE, by |-> 0]
HeldBy(t) == [held |-> TRUE, by |-> t]
MainThread == 0

\* a lock that makes nobody wait
CanAcquireAlways(lk) == TRUE

\* with self.clients_lock:  is entered when no thread holds the lock
CanAcquire(lk) == ~lk.held

\* a with block that leaves the lock as it is
LockKept(lk) == lk

\* the end of a  with self.clients_lock:  block, reached by its last
\* statement, by return, by continue or by an exception: the lock released
Release(lk) == Unlocked

\* the record of a shutdown, kept only where it is watched
Unwatched == [on |-> FALSE, socks |-> {}]
Watched(socks) == [on |-> TRUE, socks |-> socks]

LedgerIdle == permissions = NoPermissions /\ metadata = NoMetadata

\* ChatServer.__init__ and the start of run: nobody connected, folder empty
RelayIdle ==
    /\ clients = <<>> /\ running = TRUE
    /\ main_pc = "accept" /\ main_sock = 0 /\ exit_cause = "none" /\ notified = Unwatched /\ clients_lock = Unlocked
    /\ conn = [s \in Socks |-> FreeConn]
    /\ dir = EmptyDir /\ inodes = EmptyDir
    /\ relay_target = NoRelayTarget
    /\ sent = <<>> /\ last = NoLast

\* ChatClient.__init__: the receive loop not started, nothing received
ReceiveIdle ==
    /\ rx_pc = "off" /\ rx_wire = <<>> /\ rx_done = <<>>
    /\ rx_file_name = NoneV /\ rx_temp_file = NoneV
    /\ rx_inbox = EmptyDir /\ rx_shown = <<>>

ClientIdle ==
    /\ ReceiveIdle
    /\ x_user = <<>> /\ x_msg = <<>>
    /\ x_pc = "off" /\ x_file = <<>> /\ x_name = <<>> /\ x_target = NoneV
    /\ x_i = 0 /\ wire = <<>>

---------------------------------------------------------------------------
(* Cipher round trip as a state machine *)

CipherAlphabet == {"a", " ", "\n", "e'"}
NoLine == PlainLine(<<>>)

CipherIdle ==
    /\ c_pc = "idle" /\ c_plain = <<>> /\ c_pass = "pw1"
    /\ c_env = NoLine /\ c_pass2 = "pw1" /\ c_pad = "reject" /\ c_out = DecNone

InitCipher ==
    /\ LedgerIdle /\ RelayIdle /\ ClientIdle
    /\ c_pc = "plain"
    /\ c_plain \in TextsUpTo(CipherAlphabet, MaxTextLen)
    /\ c_pass \in Passwords
    /\ c_env = NoLine /\ c_pass2 = c_pass /\ c_pad = "reject" /\ c_out = DecNone

CipherEncrypt ==
    /\ c_pc = "plain"
    /\ c_env' = Encrypt(c_plain, c_pass)
    /\ c_pc' = "encrypted"
    /\ UNCHANGED <<c_plain, c_pass, c_pass2, c_pad, c_out, ledgerVars, relayVars, xferVars>>

CipherDecrypt ==
    /\ c_pc = "encrypted"
    /\ \E k \in Passwords, pad \in PadChecks :
         /\ c_pass2' = k
         /\ c_pad' = pad
         /\ c_out' = Decrypt(c_env, k, pad)
    /\ c_pc' = "decrypted"
    /\ UNCHANGED <<c_plain, c_pass, c_env, ledgerVars, relayVars, xferVars>>

NextCipher == CipherEncrypt \/ CipherDecrypt

\* encrypt called on texts of the lengths around one and two blocks, on
\* texts of line breaks, and on what input() returns for bytes outside UTF-8
EnvelopeSizes == {0, 1, 15, 16, 31, 32, 33, 47, 48, 49}
Salts == {0, 1, 7, 200}
EnvelopeTexts ==
    {[i \in 1..n |-> "a"] : n \in EnvelopeSizes}
      \cup {[i \in 1..n |-> IF i % 2 = 0 THEN "\n" ELSE "\r"] : n \in EnvelopeSizes}
      \cup {<<"c", "a", "f", Surrogate>>}

InitEnvelope ==
    /\ LedgerIdle /\ RelayIdle /\ ClientIdle
    /\ c_pc = "text"
    /\ c_plain \in EnvelopeTexts
    /\ c_pass \in Passwords
    /\ c_env = NoLine /\ c_pass2 = c_pass /\ c_pad = "reject" /\ c_out = DecNone

\* one call of encrypt; c_out holds what it returns
CipherEncryptText ==
    /\ c_pc = "text"
    /\ \E salt \in Salts : c_out' = EncryptCall(c_plain, salt)
    /\ c_pc' = "enveloped"
    /\ UNCHANGED <<c_plain, c_pass, c_env, c_pass2, c_pad, ledgerVars, relayVars, xferVars>>

NextEnvelope == CipherEncryptText

---------------------------------------------------------------------------
(* The ledger as a state machine: calls of its public operations *)

LedgerFiles == {doc, pic}
LedgerRecipients == {NoneV, Some(<<>>)} \cup {Some(u) : u \in Users}
LedgerSizes == {0, 10}

\* FilePermissions.__init__: the mapping is whatever the file holds
InitLedger ==
    /\ CipherIdle /\ RelayIdle /\ ClientIdle
    /\ metadata \in {NoMetadata, CorruptMetadata,
                      SavePermissions(AddFile(NoPermissions, doc, alice, NoneV, 0, 0))}
    /\ permissions = LoadPermissions(metadata)

LedgerAdd ==
    \E f \in LedgerFiles, u \in Users, r \in LedgerRecipients,
       sz \in LedgerSizes, now \in 0..MaxClock :
        /\ permissions' = AddFile(permissions, f, u, r, sz, now)
        /\ metadata' = SavePermissions(permissions')
        /\ UNCHANGED <<cipherVars, relayVars, xferVars>>

LedgerRemove ==
    \E f \in LedgerFiles :
        /\ f \in DOMAIN permissions
        /\ permissions' = RemoveFile(permissions, f)
        /\ metadata' = SavePermissions(permissions')
        /\ UNCHANGED <<cipherVars, relayVars, xferVars>>

\* remove_file of a filename without a record: nothing changes, nothing saved
LedgerRemoveAbsent ==
    \E f \in LedgerFiles :
        /\ f \notin DOMAIN permissions
        /\ UNCHANGED vars

\* a restart: a fresh FilePermissions over the same file
LedgerRestart ==
    /\ permissions' = LoadPermissions(metadata)
    /\ UNCHANGED <<metadata, cipherVars, relayVars, xferVars>>

NextLedger == LedgerAdd \/ LedgerRemove \/ LedgerRemoveAbsent \/ LedgerRestart

---------------------------------------------------------------------------
(* The relay: ChatServer.run, server_commands and handle_client *)

\* What the peer on socket s sends as its username.  The relay treats all
\* names alike, so the s-th connection proposes one of the first s names; the
\* first one may also send nothing but whitespace.
UserList == <<alice, bob, carol>>
HandshakeInputs(s) ==
    {UserList[i] : i \in 1..(IF s < Len(UserList) THEN s ELSE Len(UserList))}
      \cup (IF s = 1 THEN {<<" ">>} ELSE {})

\* the connection of socket 1 is the modelled client's while that is running
Wired(s) == x_pc # "off" /\ s = 1

\* the characters of a line on the wire; an envelope is openssl's base64 of
\* "Salted__", the salt and the ciphertext
WireText(line) == IF line.kind = "plain" THEN line.text ELSE <<"U2FsdGVk">>

\* the first k lines waiting on the wire, as the bytes recv returns
RECURSIVE WireBytes(_, _)
WireBytes(w, k) ==
    IF k = 0 THEN <<>> ELSE WireText(Head(w)) \o <<"\n">> \o WireBytes(Tail(w), k - 1)

\* what sock.recv(1024) may return on socket s, with the number of lines it
\* takes off the wire: whatever has arrived, not just the first line
HandshakeReads(s) ==
    IF Wired(s)
    THEN {[data |-> WireBytes(wire, k), taken |-> k] : k \in 1..Len(wire)}
    ELSE {[data |-> d, taken |-> 0] : d \in HandshakeInputs(s)}
OperatorMessages == {<<"hello all">>}

\* f"User{addr[1]}"
Placeholder(s) == <<"User", ToString(50000 + s)>>

Held(cn) == {cn[t].temp.ino : t \in {u \in Socks : cn[u].temp.some}}

\* a connection the relay is through with: nothing of it is read again
DoneConn(c) == [FreeConn EXCEPT !.pc = "closed"]

\* the finally of run: running off, the shutdown notice broadcast
RunFinally(cause, cn, writes) ==
    LET line == Encrypt(ShutdownNotice, ServerPassword) IN
    /\ running' = FALSE
    /\ exit_cause' = cause
    /\ notified' = IF notified.on
                   THEN Watched({clients[i].sock : i \in 1..Len(clients)})
                   ELSE notified
    /\ clients_lock' = clients_lock
    /\ main_pc' = "grace"
    /\ main_sock' = 0
    /\ conn' = cn
    /\ clients' = AfterBroadcast(clients, cn, NoneV)
    /\ sent' = writes \o BroadcastWrites(clients, cn, line, NoneV)

\* server_sock.accept() returns a connection
MainAccept ==
    /\ main_pc = "accept" /\ running
    /\ \E s \in Socks :
        /\ conn[s].pc = "free"
        /\ \A t \in 1..(s - 1) : conn[t].pc # "free"
        /\ conn' = [conn EXCEPT ![s].pc = "handshake", ![s].open = TRUE]
        /\ main_sock' = s
        /\ last' = NoLast
    /\ main_pc' = "recv"
    /\ sent' = <<>>
    /\ UNCHANGED <<running, exit_cause, notified, clients_lock, clients, fsVars, relay_target,
                   cipherVars, ledgerVars, xferVars>>

\* sock.recv(1024) returns; the duplicate check; append or rejection
MainRecvUsername ==
    /\ main_pc = "recv"
    /\ \E read \in HandshakeReads(main_sock) :
        LET s == main_sock
            data == read.data
            username == IF Strip(data) = <<>> THEN Placeholder(s) ELSE Strip(data)
            error == Encrypt(TakenError(username), ServerPassword)
        IN  /\ last' = Step(IF Registered(clients, username) THEN "reject" ELSE "register",
                            s, username, clients)
            /\ IF Registered(clients, username)
               THEN IF WriteOk(conn, s)
                    THEN /\ sent' = <<WriteRec(conn, s, error)>>
                         /\ conn' = [conn EXCEPT ![s] = DoneConn(@)]
                         /\ main_pc' = "accept" /\ main_sock' = 0
                         /\ UNCHANGED <<clients, running, exit_cause, notified, clients_lock>>
                    ELSE \* sendall raises: no except clause takes it
                         RunFinally("error",
                                    [conn EXCEPT ![s] = DoneConn(@)],
                                    <<WriteRec(conn, s, error)>>)
               ELSE /\ clients' = Append(clients, [sock |-> s, user |-> username])
                    /\ conn' = [conn EXCEPT ![s].pc = "start", ![s].user = username]
                    /\ main_pc' = "accept" /\ main_sock' = 0
                    /\ sent' = <<>>
                    /\ UNCHANGED <<running, exit_cause, notified, clients_lock>>
            /\ wire' = SubSeq(wire, read.taken + 1, Len(wire))
    /\ UNCHANGED <<fsVars, relay_target, cipherVars, ledgerVars, clientVars>>

\* the accept loop finds self.running false
MainLeave ==
    /\ main_pc = "accept" /\ ~running
    /\ RunFinally(exit_cause, conn, <<>>)
    /\ last' = Step("shutdown", 0, <<>>, clients)
    /\ UNCHANGED <<fsVars, relay_target, cipherVars, ledgerVars, xferVars>>

\* KeyboardInterrupt in the accept loop
MainInterrupt ==
    /\ main_pc = "accept" /\ running
    /\ RunFinally("operator", conn, <<>>)
    /\ last' = Step("shutdown", 0, <<>>, clients)
    /\ UNCHANGED <<fsVars, relay_target, cipherVars, ledgerVars, xferVars>>

\* a close loop that closes nothing
ShutdownClosedNobody(cl, cn) == cn

\* for sock, addr, username in self.clients: sock.close()
ShutdownClosed(cl, cn) ==
    [s \in Socks |->
        IF InRegistry(cl, s) THEN [cn[s] EXCEPT !.open = FALSE] ELSE cn[s]]

\* after the grace period: every registered socket closed
MainClose ==
    /\ main_pc = "grace"
    /\ main_pc' = "closing"
    /\ conn' = ShutdownClosed(clients, conn)
    /\ sent' = <<>>
    /\ last' = NoLast
    /\ UNCHANGED <<running, main_sock, exit_cause, notified, clients_lock, clients, fsVars,
                   relay_target, cipherVars, ledgerVars, xferVars>>

\* server_sock.close(): the listening socket closed; run returns to main,
\* which returns: the process exits, and with it the daemon threads, the
\* registry and every descriptor still open
MainStop ==
    /\ main_pc = "closing"
    /\ main_pc' = "stopped"
    /\ notified' = IF notified.on THEN Watched({}) ELSE notified
    /\ clients_lock' = clients_lock
    /\ clients' = <<>>
    /\ conn' = [s \in Socks |-> IF conn[s].pc = "free" THEN conn[s] ELSE DoneConn(conn[s])]
    /\ inodes' = LiveInodes(dir, inodes, Held(conn'))
    /\ sent' = <<>>
    /\ last' = NoLast
    /\ UNCHANGED <<running, main_sock, exit_cause, dir,
                   relay_target, cipherVars, ledgerVars, xferVars>>

\* server_commands: /quit or end of input
OperatorQuit ==
    /\ running
    /\ running' = FALSE
    /\ exit_cause' = "operator"
    /\ sent' = <<>>
    /\ last' = NoLast
    /\ UNCHANGED <<main_pc, main_sock, notified, clients_lock, clients, conn, fsVars, relay_target,
                   cipherVars, ledgerVars, xferVars>>

\* server_commands: a regular message of the operator
OperatorSay ==
    /\ running
    /\ \E msg \in OperatorMessages :
        LET line == Encrypt(ChatText(ServerName, msg), ServerPassword) IN
        /\ clients' = AfterBroadcast(clients, conn, NoneV)
        /\ sent' = BroadcastWrites(clients, conn, line, NoneV)
        /\ last' = Step("say", 0, msg, <<>>)
    /\ UNCHANGED <<mainVars, conn, fsVars, relay_target,
                   cipherVars, ledgerVars, xferVars>>

\* the peer resets its connection: writes to it fail from now on
PeerReset ==
    /\ \E s \in Socks :
        /\ conn[s].pc \in {"handshake", "start", "read", "list", "loop"}
        /\ conn[s].wok
        /\ conn' = [conn EXCEPT ![s].wok = FALSE]
        /\ last' = NoLast
    /\ sent' = <<>>
    /\ UNCHANGED <<mainVars, clients, fsVars, relay_target,
                   cipherVars, ledgerVars, xferVars>>

\* Python truthiness of an optional text: None and '' are false
Truthy(o) == o.some /\ o.v # <<>>

\* the branches of handle_client's loop, by the line read
IsBlank(line) == line.kind = "plain" /\ Strip(line.text) = <<>>
IsFileBegin(line) == line.kind = "plain" /\ StartsWith(Strip(line.text), "__FILE__:")
IsFileEnd(line) == line.kind = "plain" /\ Strip(line.text) = <<"__END__">>
IsOther(line) == ~IsBlank(line) /\ ~IsFileBegin(line) /\ ~IsFileEnd(line)
Receiving(c) == Truthy(c.file_name) /\ c.temp.some

CommandWords ==
    {"__CMD_LIST__", "__CMD_UPLOAD__:", "__CMD_DOWNLOAD__:", "__CMD_SEND_TO__:"}

\* the padding outcomes that make a difference to the decryption of a line
PadsFor(line) ==
    IF line.kind = "env" /\ line.key # ServerPassword THEN PadChecks ELSE {"reject"}

\* the decrypted text of a line that reaches the command dispatch
IsMessage(line, pad) ==
    /\ IsOther(line)
    /\ Decrypt(line, ServerPassword, pad).tag = "ok"
    /\ Decrypt(line, ServerPassword, pad).text # <<>>
MessageOf(line, pad) == Decrypt(line, ServerPassword, pad).text
IsCommand(line, pad, word) == IsMessage(line, pad) /\ StartsWith(MessageOf(line, pad), word)
IsChat(line, pad) == IsMessage(line, pad) /\ MessageOf(line, pad)[1] \notin CommandWords

\* what a peer may write next on socket s
ChatMessages == {<<"hi">>}
ChunkData == {<<1>>}
RelayFiles == {doc}
UploadTargets == {NoneV, Some(bob), Some(<<>>)}

PeerTexts(s) ==
    ChatMessages
      \cup {<<"__CMD_LIST__">>}
      \cup {<<"__CMD_DOWNLOAD__:">> \o f : f \in RelayFiles}
      \cup {<<"__CMD_UPLOAD__:">> \o f : f \in RelayFiles}
      \cup {<<"__CMD_UPLOAD__:">> \o f \o <<"@">> \o bob : f \in RelayFiles}
      \cup {<<"__CMD_SEND_TO__:">> \o bob \o <<":">> \o f : f \in RelayFiles}
      \cup {B64Encode(b) : b \in {c \in ChunkData :
                 conn[s].temp.some /\ conn[s].temp.pos + Len(c) <= MaxFileLen}}

\* alice is the one who uploads; where dave and erin are registered they
\* upload, both the same filenames, dave also one that cannot be opened
Uploads(s) ==
    IF conn[s].user = alice
    THEN {FileBeginLine(f, t) : f \in RelayFiles, t \in UploadTargets}
    ELSE IF conn[s].user = dave
    THEN {FileBeginLine(f, NoneV) : f \in RelayFiles \cup {NoDirName}}
    ELSE IF conn[s].user = erin
    THEN {FileBeginLine(f, NoneV) : f \in RelayFiles}
    ELSE {}

RelayInputs(s) ==
    {PlainLine(<<>>), FileEndLine}
      \cup Uploads(s)
      \cup {Envelope(t, ServerPassword) : t \in PeerTexts(s)}
      \cup {Envelope(m, "pw2") : m \in ChatMessages}

NextLines(s) ==
    IF Wired(s) THEN (IF wire = <<>> THEN {} ELSE {Head(wire)}) ELSE RelayInputs(s)
Consume(s) ==
    /\ wire' = IF Wired(s) THEN Tail(wire) ELSE wire
    /\ UNCHANGED clientVars

\* back to  while self.running:  after a line
Continue(s, cn, cl, writes) ==
    /\ conn' = [cn EXCEPT ![s].pc = IF running THEN "read" ELSE "loop"]
    /\ clients' = cl
    /\ sent' = writes

\* handle_client's finally: sink closed, own entry removed, socket closed,
\* the leave notice broadcast
Cleanup(s, cn, cl, writes) ==
    LET cn1 == [cn EXCEPT ![s] = DoneConn(@)]
        cl1 == WithoutSock(cl, s)
        line == Encrypt(LeaveNotice(conn[s].user), ServerPassword)
    IN  /\ conn' = cn1
        /\ clients' = AfterBroadcast(cl1, cn1, NoneV)
        /\ sent' = writes \o BroadcastWrites(cl1, cn1, line, NoneV)

\* the handler thread starts: the join notice, excluding the newcomer
HandlerStart ==
    /\ \E s \in Socks :
        LET u == conn[s].user
            line == Encrypt(JoinNotice(u), ServerPassword)
        IN  /\ conn[s].pc = "start"
            /\ Continue(s, conn, AfterBroadcast(clients, conn, Some(u)),
                        BroadcastWrites(clients, conn, line, Some(u)))
            /\ last' = Step("join", s, u, <<>>)
    /\ inodes' = LiveInodes(dir, inodes, Held(conn'))
    /\ UNCHANGED <<mainVars, dir, relay_target, cipherVars, ledgerVars, xferVars>>

\* the loop ends because self.running is false
HandlerExit ==
    /\ \E s \in Socks :
        /\ conn[s].pc = "loop"
        /\ Cleanup(s, conn, clients, <<>>)
        /\ last' = Step("leave", s, conn[s].user, clients)
    /\ inodes' = LiveInodes(dir, inodes, Held(conn'))
    /\ UNCHANGED <<mainVars, dir, relay_target, cipherVars, ledgerVars, xferVars>>

\* readline returns '' (EOF) or raises (socket error)
RecvEOF ==
    /\ \E s \in Socks :
        /\ conn[s].pc = "read"
        /\ ~Wired(s)
        /\ Cleanup(s, conn, clients, <<>>)
        /\ last' = Step("eof", s, conn[s].user, clients)
    /\ inodes' = LiveInodes(dir, inodes, Held(conn'))
    /\ UNCHANGED <<mainVars, dir, relay_target, cipherVars, ledgerVars, xferVars>>

\* a line that is empty after strip()
RecvBlank ==
    /\ \E s \in Socks : \E line \in NextLines(s) :
        /\ conn[s].pc = "read"
        /\ IsBlank(line)
        /\ Continue(s, conn, clients, <<>>)
        /\ last' = NoLast
        /\ Consume(s)
    /\ UNCHANGED <<mainVars, fsVars, relay_target, cipherVars, ledgerVars>>

\* outside a file reception, a line that does not decrypt to a message
RecvDrop ==
    /\ \E s \in Socks : \E line \in NextLines(s) : \E pad \in PadsFor(line) :
        /\ conn[s].pc = "read"
        /\ IsOther(line) /\ ~Receiving(conn[s]) /\ ~IsMessage(line, pad)
        /\ IF Decrypt(line, ServerPassword, pad).tag = "raise"
           THEN Cleanup(s, conn, clients, <<>>)
           ELSE Continue(s, conn, clients, <<>>)
        /\ last' = Step("drop", s, <<>>, clients)
        /\ Consume(s)
    /\ inodes' = LiveInodes(dir, inodes, Held(conn'))
    /\ UNCHANGED <<mainVars, dir, relay_target, cipherVars, ledgerVars>>

\* a regular message: broadcast, excluding the sender
ChatLine ==
    /\ \E s \in Socks : \E line \in NextLines(s) : \E pad \in PadsFor(line) :
        LET u == conn[s].user
            out == Encrypt(ChatText(u, MessageOf(line, pad)), ServerPassword)
        IN  /\ conn[s].pc = "read"
            /\ ~Receiving(conn[s]) /\ IsChat(line, pad)
            /\ Continue(s, conn, AfterBroadcast(clients, conn, Some(u)),
                        BroadcastWrites(clients, conn, out, Some(u)))
            /\ last' = Step("chat", s, MessageOf(line, pad), clients)
            /\ Consume(s)
    /\ UNCHANGED <<mainVars, fsVars, relay_target, cipherVars, ledgerVars>>

\* __FILE__:<filename>[@target_user] : the sink <filename>.tmp opened 'wb'
RecvFileBegin ==
    /\ \E s \in Socks : \E line \in NextLines(s) :
        LET file_data == Tail(Strip(line.text))
            name == IF HasAt(file_data) THEN BeforeLastAt(file_data) ELSE file_data
            target == IF HasAt(file_data) THEN Some(AfterLastAt(file_data)) ELSE NoneV
            path == TmpPath(name)
            ino == OpenIno(dir, inodes, path)
            cn == [conn EXCEPT ![s].file_name = Some(name),
                               ![s].file_target = target,
                               ![s].temp = [some |-> TRUE, ino |-> ino, pos |-> 0],
                               ![s].sinks = AfterRebind(@, ino)]
        IN  /\ conn[s].pc = "read"
            /\ IsFileBegin(line)
            /\ IF OpenRaises(path)
               THEN /\ dir' = dir
                    /\ Cleanup(s, conn, clients, <<>>)
                    /\ inodes' = LiveInodes(dir, inodes, Held(conn'))
                    /\ last' = Step("open_failed", s, name, clients)
               ELSE /\ dir' = DirAfterOpen(dir, inodes, path)
                    /\ Continue(s, cn, clients, <<>>)
                    /\ inodes' = LiveInodes(dir', InodesAfterOpen(dir, inodes, path),
                                            Held(conn'))
                    /\ last' = NoLast
            /\ Consume(s)
    /\ UNCHANGED <<mainVars, relay_target, cipherVars, ledgerVars>>

\* during a reception every other line is a chunk: decrypt, b64decode, write
RecvChunk ==
    /\ \E s \in Socks : \E line \in NextLines(s) : \E pad \in PadsFor(line) :
        LET decrypted == Decrypt(line, ServerPassword, pad)
            data == B64Decode(decrypted.text)
            t == conn[s].temp
            written == decrypted.tag = "ok" /\ decrypted.text # <<>> /\ data.ok
            cn == IF written THEN [conn EXCEPT ![s].temp.pos = t.pos + Len(data.bytes)]
                  ELSE conn
        IN  /\ conn[s].pc = "read"
            /\ IsOther(line) /\ Receiving(conn[s])
            /\ IF decrypted.tag = "raise"
               THEN Cleanup(s, conn, clients, <<>>)
               ELSE Continue(s, cn, clients, <<>>)
            /\ inodes' = LiveInodes(dir,
                            IF written
                            THEN [inodes EXCEPT ![t.ino] = WriteAt(@, t.pos, data.bytes)]
                            ELSE inodes,
                            Held(conn'))
            /\ last' = NoLast
            /\ Consume(s)
    /\ UNCHANGED <<mainVars, dir, relay_target, cipherVars, ledgerVars>>

\* what time.time() reads when an upload completes
UploadTimes == {0}

\* every upload announced to everybody
UploadWritesToAll(cl, cn, u, name, target) ==
    BroadcastWrites(cl, cn, Encrypt(PublicNotice(u, name), ServerPassword), NoneV)

\* the notifications after a completed reception
UploadWrites(cl, cn, u, name, target) ==
    IF Truthy(target)
    THEN UnicastWrites(cl, cn, u, Encrypt(PrivateConfirm(name, target.v), ServerPassword))
           \o UnicastWrites(cl, cn, target.v, Encrypt(PrivateNotice(u, name), ServerPassword))
    ELSE BroadcastWrites(cl, cn, Encrypt(PublicNotice(u, name), ServerPassword), NoneV)

\* __END__ : the sink renamed to its final name, the ledger told, the
\* notifications sent; os.rename raising ends the handler
RecvFileEnd ==
    /\ \E s \in Socks : \E line \in NextLines(s) : \E now \in UploadTimes :
        LET c == conn[s]
            u == c.user
            name == c.file_name.v
            cn == [conn EXCEPT ![s].file_name = NoneV, ![s].file_target = NoneV,
                               ![s].temp = NoTemp, ![s].sinks = {}]
            completes == Receiving(c) /\ IsFile(dir, TmpPath(name))
            d == DirAfterRename(dir, TmpPath(name), name)
        IN  /\ conn[s].pc = "read"
            /\ IsFileEnd(line)
            /\ IF ~Receiving(c)
               THEN /\ Continue(s, cn, clients, <<>>)
                    /\ UNCHANGED <<dir, ledgerVars>>
               ELSE IF ~IsFile(dir, TmpPath(name))
               THEN /\ Cleanup(s, conn, clients, <<>>)
                    /\ UNCHANGED <<dir, ledgerVars>>
               ELSE /\ dir' = d
                    /\ permissions' = AddFile(permissions, name, u, c.file_target,
                                              Len(FileBytes(d, inodes, name)), now)
                    /\ metadata' = SavePermissions(permissions')
                    /\ Continue(s, cn,
                                IF Truthy(c.file_target) THEN clients
                                ELSE AfterBroadcast(clients, conn, NoneV),
                                UploadWrites(clients, conn, u, name, c.file_target))
            /\ inodes' = LiveInodes(dir', inodes, Held(conn'))
            /\ last' = IF completes THEN Step("file_end", s, name, clients)
                        ELSE IF Receiving(c) THEN Step("rename_failed", s, name, clients)
                        ELSE Step("end", s, <<>>, <<>>)
            /\ Consume(s)
    /\ UNCHANGED <<mainVars, relay_target, cipherVars>>

\* the orders os.listdir may give the names of the folder in
Listings(d) ==
    {l \in [1..Cardinality(DOMAIN d) -> DOMAIN d] :
        \A i, j \in 1..Cardinality(DOMAIN d) : i # j => l[i] # l[j]}

\* str(n) for the sizes that occur
SizeText(n) == <<ToString(n)>>

RECURSIVE ListingText(_, _, _, _, _)
ListingText(perms, d, ino, u, files) ==
    IF files = <<>> THEN <<>>
    ELSE LET entry == ListFilesForUser(perms, u, files)[1] IN
         <<IF entry[3] THEN AllowedMark ELSE DeniedMark>>
            \o entry[2] \o <<" (">> \o SizeText(Len(FileBytes(d, ino, entry[1])))
            \o <<" bytes)">>
            \o ListingText(perms, d, ino, u, Tail(files))

ListResponse(perms, d, ino, u, files) ==
    IF files = <<>> THEN <<"Shared folder is empty">>
    ELSE <<"Shared folder contents:">> \o ListingText(perms, d, ino, u, files)

\* __CMD_LIST__ : files = os.listdir(self.shared_folder)
CmdList ==
    /\ \E s \in Socks : \E line \in NextLines(s) : \E pad \in PadsFor(line) :
       \E files \in Listings(dir) :
        /\ conn[s].pc = "read"
        /\ ~Receiving(conn[s]) /\ IsCommand(line, pad, "__CMD_LIST__")
        /\ conn' = [conn EXCEPT ![s].pc = "list", ![s].files = Some(files)]
        /\ Consume(s)
    /\ sent' = <<>>
    /\ last' = NoLast
    /\ UNCHANGED <<mainVars, clients, fsVars, relay_target, cipherVars, ledgerVars>>

\* the rest of the List branch: the entries made with the ledger and
\* os.path.getsize of each listed name, the response unicast to the
\* requester; getsize of a name that is gone by now raises, which ends the
\* handler
CmdListReply ==
    /\ \E s \in Socks :
        LET u == conn[s].user
            files == conn[s].files.v
            response == ListResponse(permissions, dir, inodes, u, files)
        IN  /\ conn[s].pc = "list"
            /\ IF \E i \in 1..Len(files) : ~IsFile(dir, files[i])
               THEN Cleanup(s, conn, clients, <<>>)
               ELSE Continue(s, [conn EXCEPT ![s].files = NoneV], clients,
                             UnicastWrites(clients, conn, u,
                                           Encrypt(response, ServerPassword)))
            /\ last' = Step("list", s, files, clients)
    /\ inodes' = LiveInodes(dir, inodes, Held(conn'))
    /\ UNCHANGED <<mainVars, dir, relay_target, cipherVars, ledgerVars, xferVars>>

\* __CMD_UPLOAD__:<filename>[@target_user] : an error when the target is not
\* registered, nothing otherwise
CmdUpload ==
    /\ \E s \in Socks : \E line \in NextLines(s) : \E pad \in PadsFor(line) :
        LET u == conn[s].user
            upload_data == Tail(MessageOf(line, pad))
            target_user == AfterLastAt(upload_data)
            refused == HasAt(upload_data) /\ ~Registered(clients, target_user)
        IN  /\ conn[s].pc = "read"
            /\ ~Receiving(conn[s]) /\ IsCommand(line, pad, "__CMD_UPLOAD__:")
            /\ Continue(s, conn, clients,
                        IF refused
                        THEN UnicastWrites(clients, conn, u,
                                 Encrypt(OfflineError(target_user), ServerPassword))
                        ELSE <<>>)
            /\ last' = Step(IF HasAt(upload_data) THEN "upload" ELSE "upload_public",
                            s, IF HasAt(upload_data) THEN target_user ELSE <<>>, clients)
            /\ Consume(s)
    /\ UNCHANGED <<mainVars, fsVars, relay_target, cipherVars, ledgerVars>>

\* the sendall calls of send_file_to_client, up to the first that fails
RECURSIVE UpToFailure(_)
UpToFailure(writes) ==
    IF writes = <<>> THEN <<>>
    ELSE IF ~Head(writes).ok THEN <<Head(writes)>>
    ELSE <<Head(writes)>> \o UpToFailure(Tail(writes))

FileStream(cn, sock, filename, bytes) ==
    LET chunks == Chunks(B64Encode(bytes), ChunkSize) IN
    UpToFailure(
        <<WriteRec(cn, sock, FileBeginLine(filename, NoneV))>>
          \o [k \in 1..Len(chunks) |-> WriteRec(cn, sock, Encrypt(chunks[k], ServerPassword))]
          \o <<WriteRec(cn, sock, FileEndLine)>>)

\* __CMD_DOWNLOAD__:<filename> : not found, denied, or the file streamed to
\* the requester's own socket
CmdDownload ==
    /\ \E s \in Socks : \E line \in NextLines(s) : \E pad \in PadsFor(line) :
        LET u == conn[s].user
            filename == Tail(MessageOf(line, pad))
            verdict == CanDownload(permissions, filename, u)
            error == IF ~IsFile(dir, filename) THEN NotFoundError(filename)
                     ELSE DeniedError(filename, verdict[2])
        IN  /\ conn[s].pc = "read"
            /\ ~Receiving(conn[s]) /\ IsCommand(line, pad, "__CMD_DOWNLOAD__:")
            /\ Continue(s, conn, clients,
                        IF IsFile(dir, filename) /\ verdict[1]
                        THEN FileStream(conn, s, filename, FileBytes(dir, inodes, filename))
                        ELSE UnicastWrites(clients, conn, u, Encrypt(error, ServerPassword)))
            /\ last' = Step("download", s, filename, clients)
            /\ Consume(s)
    /\ UNCHANGED <<mainVars, fsVars, relay_target, cipherVars, ledgerVars>>

\* __CMD_SEND_TO__:<target_username>:<filename> : the relay target stored
\* when the target is registered, an error to the requester otherwise
CmdSendTo ==
    /\ \E s \in Socks : \E line \in NextLines(s) : \E pad \in PadsFor(line) :
        LET u == conn[s].user
            rest == Tail(MessageOf(line, pad))
            target_username == SubSeq(rest, 1, FirstColon(rest) - 1)
            filename == SubSeq(rest, FirstColon(rest) + 1, Len(rest))
            exists == Registered(clients, target_username)
        IN  /\ conn[s].pc = "read"
            /\ ~Receiving(conn[s]) /\ IsCommand(line, pad, "__CMD_SEND_TO__:")
            /\ IF ~HasColon(rest)
               THEN /\ Continue(s, conn, clients, <<>>)
                    /\ UNCHANGED relay_target
               ELSE /\ Continue(s, conn, clients,
                        IF exists THEN <<>>
                        ELSE UnicastWrites(clients, conn, u,
                                 Encrypt(OfflineError(target_username), ServerPassword)))
                    /\ relay_target' =
                         IF exists
                         THEN [some |-> TRUE, target |-> target_username,
                               filename |-> filename, sender |-> u]
                         ELSE relay_target
            /\ last' = Step(IF HasColon(rest) THEN "sendto" ELSE "sendto_malformed",
                            s, IF HasColon(rest) THEN target_username ELSE <<>>, clients)
            /\ Consume(s)
    /\ UNCHANGED <<mainVars, fsVars, cipherVars, ledgerVars>>

---------------------------------------------------------------------------
(* The registry under its lock, access by access: every  with
   self.clients_lock:  block is entered by one step and passed through by
   the steps of its body, the last of which leaves it *)

\* the positions of a handler inside a with block
HandlerLocked == {"lk_bcast", "lk_ucast", "lk_exists", "lk_exit"}
\* the positions of run inside a with block
MainLocked == {"lk_dup", "lk_add", "lk_close"}

LkOther == <<fsVars, relay_target, cipherVars, ledgerVars, xferVars>>
LkMainSame == <<running, main_pc, main_sock, exit_cause, notified>>

\* every broadcast carrying the same chat line
BroadcastLineHi(s) == Encrypt(<<"hi">>, ServerPassword)

\* the message of a handler's broadcast: the leave notice of its own session
\* when it comes from finally, a chat line otherwise
BroadcastLine(s) ==
    IF conn[s].after = "closed"
    THEN Encrypt(LeaveNotice(conn[s].user), ServerPassword)
    ELSE Encrypt(<<"hi">>, ServerPassword)

\* broadcast(...) of a join notice or a chat line: the with block entered
LkBroadcastEnter ==
    /\ \E s \in Socks :
        /\ conn[s].pc \in {"start", "read"}
        /\ CanAcquire(clients_lock)
        /\ clients_lock' = HeldBy(s)
        /\ conn' = [conn EXCEPT ![s].pc = "lk_bcast", ![s].iter = 1,
                                 ![s].dead = <<>>, ![s].after = "read"]
    /\ sent' = <<>> /\ last' = NoLast
    /\ UNCHANGED <<LkMainSame, clients, LkOther>>

\* one turn of  for sock, addr, username in self.clients:  the sendall to a
\* session other than the sender, which joins dead_clients when that fails
LkBroadcastNext ==
    /\ \E s \in Socks :
        LET c == clients[conn[s].iter]
            skipped == conn[s].after = "read" /\ c.user = conn[s].user
            line == BroadcastLine(s)
        IN  /\ conn[s].pc = "lk_bcast"
            /\ conn[s].iter <= Len(clients)
            /\ conn' = [conn EXCEPT ![s].iter = @ + 1,
                                    ![s].dead = IF skipped \/ WriteOk(conn, c.sock)
                                                THEN @ ELSE Append(@, c.sock)]
            /\ sent' = IF skipped THEN <<>> ELSE <<WriteRec(conn, c.sock, line)>>
    /\ last' = NoLast
    /\ UNCHANGED <<mainVars, clients, LkOther>>

\* the iteration is over: the dead clients removed, the with block left
LkBroadcastLeave ==
    /\ \E s \in Socks :
        /\ conn[s].pc = "lk_bcast"
        /\ conn[s].iter > Len(clients)
        /\ clients' = SelectSeq(clients, LAMBDA c :
                          \A k \in 1..Len(conn[s].dead) : conn[s].dead[k] # c.sock)
        /\ clients_lock' = Release(clients_lock)
        /\ conn' = [conn EXCEPT ![s] = IF conn[s].after = "closed" THEN DoneConn(@)
                                       ELSE [@ EXCEPT !.pc = "read", !.iter = 0,
                                                      !.dead = <<>>, !.after = ""]]
    /\ sent' = <<>> /\ last' = NoLast
    /\ UNCHANGED <<LkMainSame, LkOther>>

\* send_to_client(...) and the target-exists checks: the with block entered
LkLookupEnter ==
    /\ \E s \in Socks : \E kind \in {"lk_ucast", "lk_exists"} :
        /\ conn[s].pc = "read"
        /\ CanAcquire(clients_lock)
        /\ clients_lock' = HeldBy(s)
        /\ conn' = [conn EXCEPT ![s].pc = kind]
    /\ sent' = <<>> /\ last' = NoLast
    /\ UNCHANGED <<LkMainSame, clients, LkOther>>

\* the registry searched for a username (the unicast writes to the session
\* found), the with block left
LkLookupLeave ==
    /\ \E s \in Socks :
        /\ conn[s].pc \in {"lk_ucast", "lk_exists"}
        /\ sent' = IF conn[s].pc = "lk_ucast"
                    THEN UnicastWrites(clients, conn, conn[s].user,
                                       Encrypt(<<"hi">>, ServerPassword))
                    ELSE <<>>
        /\ clients_lock' = Release(clients_lock)
        /\ conn' = [conn EXCEPT ![s].pc = "read"]
    /\ last' = NoLast
    /\ UNCHANGED <<LkMainSame, clients, LkOther>>

\* handle_client's finally: the with block around the removal entered
LkExitEnter ==
    /\ \E s \in Socks :
        /\ conn[s].pc = "read"
        /\ CanAcquire(clients_lock)
        /\ clients_lock' = HeldBy(s)
        /\ conn' = [conn EXCEPT ![s].pc = "lk_exit"]
    /\ sent' = <<>> /\ last' = NoLast
    /\ UNCHANGED <<LkMainSame, clients, LkOther>>

\* the handler's own entry removed, the with block left, the socket closed
LkExitLeave ==
    /\ \E s \in Socks :
        /\ conn[s].pc = "lk_exit"
        /\ clients' = WithoutSock(clients, s)
        /\ clients_lock' = Release(clients_lock)
        /\ conn' = [conn EXCEPT ![s].pc = "leaving", ![s].open = FALSE]
    /\ sent' = <<>> /\ last' = NoLast
    /\ UNCHANGED <<LkMainSame, LkOther>>

\* broadcast(announcement) of the leave notice: the with block entered
LkLeaveEnter ==
    /\ \E s \in Socks :
        /\ conn[s].pc = "leaving"
        /\ CanAcquire(clients_lock)
        /\ clients_lock' = HeldBy(s)
        /\ conn' = [conn EXCEPT ![s].pc = "lk_bcast", ![s].iter = 1,
                                 ![s].dead = <<>>, ![s].after = "closed"]
    /\ sent' = <<>> /\ last' = NoLast
    /\ UNCHANGED <<LkMainSame, clients, LkOther>>

\* server_commands: a message of the operator, the whole with block of its
\* broadcast in one step, taken when no other thread is inside one
LkOperatorSay ==
    /\ running /\ CanAcquire(clients_lock)
    /\ \E msg \in OperatorMessages :
        LET line == Encrypt(ChatText(ServerName, msg), ServerPassword) IN
        /\ clients' = AfterBroadcast(clients, conn, NoneV)
        /\ sent' = BroadcastWrites(clients, conn, line, NoneV)
        /\ last' = Step("say", 0, msg, clients)
    /\ UNCHANGED <<mainVars, conn, LkOther>>

\* run: the username received, the with block of the duplicate check entered
LkDupEnter ==
    /\ main_pc = "recv"
    /\ CanAcquire(clients_lock)
    /\ \E data \in HandshakeInputs(main_sock) :
          conn' = [conn EXCEPT ![main_sock].user =
                      IF Strip(data) = <<>> THEN Placeholder(main_sock) ELSE Strip(data)]
    /\ clients_lock' = HeldBy(MainThread)
    /\ main_pc' = "lk_dup"
    /\ sent' = <<>> /\ last' = NoLast
    /\ UNCHANGED <<running, main_sock, exit_cause, notified, clients, LkOther>>

\* existing_usernames read; a duplicate is written the error, its socket
\* closed and the with block left by continue
LkDupCheck ==
    /\ main_pc = "lk_dup"
    /\ LET s == main_sock
           username == conn[s].user
       IN  IF Registered(clients, username)
           THEN /\ sent' = <<WriteRec(conn, s, Encrypt(TakenError(username), ServerPassword))>>
                /\ conn' = [conn EXCEPT ![s] = DoneConn(@)]
                /\ clients_lock' = Release(clients_lock)
                \* a sendall that raises leaves the block and the loop
                /\ main_pc' = IF WriteOk(conn, s) THEN "accept" ELSE "raised"
                /\ main_sock' = 0
           ELSE /\ sent' = <<>>
                /\ main_pc' = "lk_add"
                /\ UNCHANGED <<conn, clients_lock, main_sock>>
    /\ last' = NoLast
    /\ UNCHANGED <<running, exit_cause, notified, clients, LkOther>>

\* self.clients.append(...), the with block left; the handler thread started
LkDupAdd ==
    /\ main_pc = "lk_add"
    /\ clients' = Append(clients, [sock |-> main_sock, user |-> conn[main_sock].user])
    /\ conn' = [conn EXCEPT ![main_sock].pc = "start"]
    /\ clients_lock' = Release(clients_lock)
    /\ main_pc' = "accept" /\ main_sock' = 0
    /\ sent' = <<>> /\ last' = NoLast
    /\ UNCHANGED <<running, exit_cause, notified, LkOther>>

\* run's finally, after the notice and the grace period: the with block of
\* the close loop entered
LkCloseEnter ==
    /\ main_pc \in {"accept", "raised"}
    /\ CanAcquire(clients_lock)
    /\ clients_lock' = HeldBy(MainThread)
    /\ running' = FALSE
    /\ exit_cause' = IF main_pc = "raised" THEN "error" ELSE "operator"
    /\ main_pc' = "lk_close"
    /\ sent' = <<>> /\ last' = NoLast
    /\ UNCHANGED <<main_sock, notified, clients, conn, LkOther>>

\* every registered socket closed, the with block left; run returns and the
\* process exits
LkCloseLeave ==
    /\ main_pc = "lk_close"
    /\ clients_lock' = Release(clients_lock)
    /\ main_pc' = "stopped"
    /\ clients' = <<>>
    /\ conn' = [s \in Socks |-> IF conn[s].pc = "free" THEN conn[s] ELSE DoneConn(conn[s])]
    /\ sent' = <<>> /\ last' = NoLast
    /\ UNCHANGED <<running, main_sock, exit_cause, notified, LkOther>>

---------------------------------------------------------------------------
(* The client sending a file: ChatClient.send_file, send_file_private *)

\* the sizes sent: none, a few bytes, around one chunk of base64 (381 bytes
\* give 508 characters, 383 and 384 give 512, 385 gives 516), and three chunks
TransferSizes == {0, 1, 2, 3, 381, 383, 384, 385, 511, 512, 1000}
TransferNames == {doc, pic}
TransferTargets == {NoneV, Some(bob)}

\* file contents: every byte value occurs in the longer ones
PatternBytes(n) == [i \in 1..n |-> (i * 37 + 218) % 256]

ClientChunks == Chunks(B64Encode(x_file), ChunkSize)

\* self.sock.sendall(f"__FILE__:{filename}\n") or ...{filename}@{target_user}
ClientSendHeader ==
    /\ x_pc = "header"
    /\ wire' = Append(wire, FileBeginLine(x_name, x_target))
    /\ x_pc' = IF ClientChunks = <<>> THEN "end" ELSE "chunks"
    /\ UNCHANGED <<x_user, x_msg, x_file, x_name, x_target, x_i, recvVars,
                   cipherVars, ledgerVars, relayVars>>

\* one turn of the chunk loop: encrypt b64_data[i:i+chunk_size], send it
ClientSendChunk ==
    /\ x_pc = "chunks"
    /\ wire' = Append(wire, Encrypt(ClientChunks[x_i + 1], ServerPassword))
    /\ x_i' = x_i + 1
    /\ x_pc' = IF x_i + 1 = Len(ClientChunks) THEN "end" ELSE "chunks"
    /\ UNCHANGED <<x_user, x_msg, x_file, x_name, x_target, recvVars,
                   cipherVars, ledgerVars, relayVars>>

\* self.sock.sendall(b"__END__\n")
ClientSendEnd ==
    /\ x_pc = "end"
    /\ wire' = Append(wire, FileEndLine)
    /\ x_pc' = "sent"
    /\ UNCHANGED <<x_user, x_msg, x_file, x_name, x_target, x_i, recvVars,
                   cipherVars, ledgerVars, relayVars>>

\* a command or message written without encrypting it
ClientLineRaw(text) == PlainLine(text)

\* encrypted = self.encryption.encrypt(cmd); sendall(encrypted.encode() + b'\n')
ClientLine(text) == Encrypt(text, ServerPassword)

\* what the user types at the prompt
UploadCommand(f, t) ==
    <<"/upload ">> \o f \o (IF t.some THEN <<" ", "@">> \o t.v ELSE <<>>)
OperatorInputs ==
    {<<"/quit">>, <<"/list">>, <<"hi">>}
      \cup {UploadCommand(f, t) : f \in TransferNames, t \in TransferTargets}
      \cup {<<"/send ">> \o f : f \in TransferNames}
      \cup {<<"/download ">> \o f : f \in TransferNames}

\* send_messages: one line typed and dispatched.  The outbox holds the file
\* x_name; /send and /upload take all that follows the command word as the
\* name of a file of the outbox and start send_file on it, or report that
\* there is no such file.
ClientCommand ==
    /\ x_pc = "prompt"
    /\ \E msg \in OperatorInputs :
        LET filename == Strip(Tail(msg))
            isfile == filename = x_name
            line == IF msg = <<"/list">> THEN <<"__CMD_LIST__">>
                    ELSE IF StartsWith(msg, "/download ")
                         THEN <<"__CMD_DOWNLOAD__:">> \o filename
                         ELSE msg
        IN  /\ x_msg' = msg
            /\ IF msg = <<"/quit">>
               THEN x_pc' = "quit" /\ wire' = wire
               ELSE IF StartsWith(msg, "/send ") \/ StartsWith(msg, "/upload ")
               THEN x_pc' = (IF isfile THEN "header" ELSE "done") /\ wire' = wire
               ELSE /\ x_pc' = "done"
                    /\ wire' = Append(wire, ClientLine(line))
    /\ UNCHANGED <<x_user, x_file, x_name, x_target, x_i, recvVars,
                   cipherVars, ledgerVars, relayVars>>

\* ChatClient.run: self.sock.sendall(self.username.encode() + b'\n')
ClientSendUsername ==
    /\ x_pc = "hello"
    /\ wire' = Append(wire, PlainLine(x_user))
    /\ x_pc' = "chatting"
    /\ UNCHANGED <<x_user, x_msg, x_file, x_name, x_target, x_i, recvVars,
                   cipherVars, ledgerVars, relayVars>>

\* ChatClient.run after the username: the receiver thread started, then
\* send_messages entered
ClientStartLoops ==
    /\ x_pc = "chatting" /\ rx_pc = "off"
    /\ rx_pc' = "read"
    /\ x_pc' = "prompt"
    /\ UNCHANGED <<x_user, x_msg, x_file, x_name, x_target, x_i, wire,
                   rx_wire, rx_done, rx_file_name, rx_temp_file, rx_inbox, rx_shown,
                   cipherVars, ledgerVars, relayVars>>

\* send_messages: a regular message of the user, encrypted and sent
ClientSendChat ==
    /\ x_pc = "chatting" /\ x_i < MaxClientLines
    /\ \E msg \in ChatMessages : wire' = Append(wire, Encrypt(msg, ServerPassword))
    /\ x_i' = x_i + 1
    /\ UNCHANGED <<x_user, x_msg, x_pc, x_file, x_name, x_target, recvVars,
                   cipherVars, ledgerVars, relayVars>>

---------------------------------------------------------------------------
(* The client's receive loop: ChatClient.receive_messages *)

\* what arrives on the client's socket: a blank line, the markers and a chunk
\* of a download, a chat line, the shutdown notice, a line under another key
DownLines ==
    {PlainLine(<<>>), FileBeginLine(doc, NoneV), FileEndLine,
     Encrypt(B64Encode(<<1>>), ServerPassword),
     Encrypt(ChatText(bob, <<"hi">>), ServerPassword),
     Encrypt(ShutdownNotice, ServerPassword),
     Envelope(<<"hi">>, "pw2")}

DownWires == UNION {[1..k -> DownLines] : k \in 1..MaxDownLines}

\* the loop takes the next line
RxTake ==
    /\ rx_wire' = Tail(rx_wire)
    /\ rx_done' = Append(rx_done, Head(rx_wire))

\* the loop is left: by break, or by an exception the except clause prints;
\* finally closes temp_file
RxEnd ==
    /\ rx_pc' = "ended"
    /\ rx_temp_file' = NoneV
    /\ UNCHANGED <<rx_file_name, rx_inbox, rx_shown>>

\* readline returns '': the relay closed the connection
ClientRecvEOF ==
    /\ rx_pc = "read" /\ rx_wire = <<>>
    /\ RxEnd
    /\ UNCHANGED <<rx_wire, rx_done>>
    /\ UNCHANGED <<x_user, x_msg, x_pc, x_file, x_name, x_target, x_i, wire,
                   cipherVars, ledgerVars, relayVars>>

\* a line that is empty after strip()
ClientRecvBlank ==
    /\ rx_pc = "read" /\ rx_wire # <<>>
    /\ IsBlank(Head(rx_wire))
    /\ RxTake
    /\ UNCHANGED <<rx_pc, rx_file_name, rx_temp_file, rx_inbox, rx_shown>>
    /\ UNCHANGED <<x_user, x_msg, x_pc, x_file, x_name, x_target, x_i, wire,
                   cipherVars, ledgerVars, relayVars>>

\* __FILE__:<name> : the sink opened (truncated) in the inbox
ClientRecvFileBegin ==
    /\ rx_pc = "read" /\ rx_wire # <<>>
    /\ IsFileBegin(Head(rx_wire))
    /\ LET name == Tail(Strip(Head(rx_wire).text))
           path == TmpPath(name)
       IN  /\ rx_file_name' = Some(name)
           /\ rx_temp_file' = Some(path)
           /\ rx_inbox' = [q \in DOMAIN rx_inbox \cup {path} |->
                              IF q = path THEN <<>> ELSE rx_inbox[q]]
    /\ RxTake
    /\ UNCHANGED <<rx_pc, rx_shown>>
    /\ UNCHANGED <<x_user, x_msg, x_pc, x_file, x_name, x_target, x_i, wire,
                   cipherVars, ledgerVars, relayVars>>

\* __END__ : the sink renamed to its final name, if there is one
ClientRecvFileEnd ==
    /\ rx_pc = "read" /\ rx_wire # <<>>
    /\ IsFileEnd(Head(rx_wire))
    /\ IF rx_temp_file.some /\ Truthy(rx_file_name)
       THEN LET tmp == TmpPath(rx_file_name.v)
                final == rx_file_name.v
            IN  rx_inbox' = [q \in (DOMAIN rx_inbox \ {tmp}) \cup {final} |->
                                IF q = final THEN rx_inbox[tmp] ELSE rx_inbox[q]]
       ELSE rx_inbox' = rx_inbox
    /\ rx_file_name' = NoneV
    /\ rx_temp_file' = NoneV
    /\ RxTake
    /\ UNCHANGED <<rx_pc, rx_shown>>
    /\ UNCHANGED <<x_user, x_msg, x_pc, x_file, x_name, x_target, x_i, wire,
                   cipherVars, ledgerVars, relayVars>>

\* if file_name and temp_file:  every other line is a chunk of the file
ClientRecvChunk ==
    /\ rx_pc = "read" /\ rx_wire # <<>>
    /\ IsOther(Head(rx_wire))
    /\ Truthy(rx_file_name) /\ rx_temp_file.some
    /\ \E pad \in PadsFor(Head(rx_wire)) :
        LET decrypted == Decrypt(Head(rx_wire), ServerPassword, pad)
            file_data == B64Decode(decrypted.text)
            path == rx_temp_file.v
        IN  IF decrypted.tag = "raise"
            THEN RxEnd
            ELSE /\ rx_inbox' =
                      IF decrypted.tag = "ok" /\ decrypted.text # <<>> /\ file_data.ok
                      THEN [rx_inbox EXCEPT ![path] = @ \o file_data.bytes]
                      ELSE rx_inbox
                 /\ UNCHANGED <<rx_pc, rx_file_name, rx_temp_file, rx_shown>>
    /\ RxTake
    /\ UNCHANGED <<x_user, x_msg, x_pc, x_file, x_name, x_target, x_i, wire,
                   cipherVars, ledgerVars, relayVars>>

\* else: a regular message, displayed; the shutdown notice displayed, the
\* socket closed and the process left with os._exit(0)
ClientRecvMessage ==
    /\ rx_pc = "read" /\ rx_wire # <<>>
    /\ IsOther(Head(rx_wire))
    /\ ~(Truthy(rx_file_name) /\ rx_temp_file.some)
    /\ \E pad \in PadsFor(Head(rx_wire)) :
        LET msg == Decrypt(Head(rx_wire), ServerPassword, pad) IN
        IF msg.tag = "raise"
        THEN RxEnd
        ELSE IF msg.tag = "ok" /\ msg.text # <<>>
        THEN /\ rx_shown' = Append(rx_shown, msg.text)
             /\ rx_pc' = IF msg.text = ShutdownNotice THEN "exited" ELSE rx_pc
             /\ UNCHANGED <<rx_file_name, rx_temp_file, rx_inbox>>
        ELSE UNCHANGED <<rx_pc, rx_file_name, rx_temp_file, rx_inbox, rx_shown>>
    /\ RxTake
    /\ UNCHANGED <<x_user, x_msg, x_pc, x_file, x_name, x_target, x_i, wire,
                   cipherVars, ledgerVars, relayVars>>

---------------------------------------------------------------------------
(* Specifications *)

Next ==
    \/ MainAccept \/ MainRecvUsername \/ MainLeave \/ MainInterrupt
    \/ MainClose \/ MainStop
    \/ OperatorQuit \/ OperatorSay \/ PeerReset
    \/ HandlerStart \/ HandlerExit \/ RecvEOF \/ RecvBlank \/ RecvDrop \/ ChatLine

Init == CipherIdle /\ LedgerIdle /\ RelayIdle /\ ClientIdle

\* the relay's sessions: accept loop, operator, handlers relaying chat lines
Spec == Init /\ [][Next]_vars

\* the relay's file handling between two registered sessions: alice on the
\* first socket, bob or carol on the second, both handlers reading
ReadingConn(u) == [FreeConn EXCEPT !.pc = "read", !.user = u, !.open = TRUE]

InitFiles ==
    /\ CipherIdle /\ LedgerIdle /\ ClientIdle
    /\ running = TRUE /\ main_pc = "accept" /\ main_sock = 0 /\ exit_cause = "none" /\ notified = Unwatched /\ clients_lock = Unlocked
    /\ \E peer \in {bob, carol} :
          /\ clients = <<[sock |-> 1, user |-> alice], [sock |-> 2, user |-> peer]>>
          /\ conn = [s \in Socks |->
                       IF s = 1 THEN ReadingConn(alice)
                       ELSE IF s = 2 THEN ReadingConn(peer) ELSE FreeConn]
    /\ dir = EmptyDir /\ inodes = EmptyDir
    /\ relay_target = NoRelayTarget
    /\ sent = <<>> /\ last = NoLast

NextFiles ==
    \/ RecvFileBegin \/ RecvChunk \/ RecvFileEnd
    \/ CmdUpload \/ CmdDownload \/ CmdSendTo
    \/ RecvEOF \/ PeerReset

SpecFiles == InitFiles /\ [][NextFiles]_vars

\* the same two sessions: one uploads while the other asks for listings
NextList ==
    \/ RecvFileBegin \/ RecvChunk \/ RecvFileEnd
    \/ CmdList \/ CmdListReply

SpecList == InitFiles /\ [][NextList]_vars

\* one client, registered as alice, sends one file to the relay
InitTransfer ==
    /\ CipherIdle /\ LedgerIdle
    /\ running = TRUE /\ main_pc = "accept" /\ main_sock = 0 /\ exit_cause = "none" /\ notified = Unwatched /\ clients_lock = Unlocked
    /\ clients = <<[sock |-> 1, user |-> alice]>>
    /\ conn = [s \in Socks |-> IF s = 1 THEN ReadingConn(alice) ELSE FreeConn]
    /\ dir = EmptyDir /\ inodes = EmptyDir
    /\ relay_target = NoRelayTarget
    /\ sent = <<>> /\ last = NoLast
    /\ ReceiveIdle
    /\ x_user = alice /\ x_msg = <<>>
    /\ x_pc = "header" /\ x_i = 0 /\ wire = <<>>
    /\ x_file \in {PatternBytes(n) : n \in TransferSizes}
    /\ x_name \in TransferNames
    /\ x_target \in TransferTargets

NextTransfer ==
    \/ ClientSendHeader \/ ClientSendChunk \/ ClientSendEnd
    \/ RecvFileBegin \/ RecvChunk \/ RecvFileEnd

SpecTransfer == InitTransfer /\ [][NextTransfer]_vars

\* a client connects, sends its username and starts chatting, while the
\* relay accepts it and other peers
InitHandshake ==
    /\ CipherIdle /\ LedgerIdle /\ RelayIdle
    /\ ReceiveIdle
    /\ x_user \in {alice, <<>>, ServerName} /\ x_msg = <<>>
    /\ x_pc = "hello" /\ x_file = <<>> /\ x_name = <<>> /\ x_target = NoneV
    /\ x_i = 0 /\ wire = <<>>

NextHandshake ==
    \/ ClientSendUsername \/ ClientSendChat
    \/ MainAccept \/ MainRecvUsername
    \/ HandlerStart \/ RecvEOF \/ RecvDrop \/ ChatLine

SpecHandshake == InitHandshake /\ [][NextHandshake]_vars

\* the relay shuts down: one session registered, others may still connect,
\* the operator quits or interrupts, peers reset or leave
InitShutdown ==
    /\ CipherIdle /\ LedgerIdle /\ ClientIdle
    /\ running = TRUE /\ main_pc = "accept" /\ main_sock = 0 /\ exit_cause = "none"
    /\ notified = Watched({}) /\ clients_lock = Unlocked
    /\ clients = <<[sock |-> 1, user |-> alice]>>
    /\ conn = [s \in Socks |-> IF s = 1 THEN ReadingConn(alice) ELSE FreeConn]
    /\ dir = EmptyDir /\ inodes = EmptyDir
    /\ relay_target = NoRelayTarget
    /\ sent = <<>> /\ last = NoLast

NextShutdown ==
    \/ MainAccept \/ MainRecvUsername \/ MainLeave \/ MainInterrupt
    \/ MainClose \/ MainStop
    \/ OperatorQuit \/ PeerReset
    \/ HandlerStart \/ HandlerExit \/ RecvEOF

SpecShutdown == InitShutdown /\ [][NextShutdown]_vars

\* a connected client reads what the relay wrote to its socket before
\* closing it
InitReceive ==
    /\ CipherIdle /\ LedgerIdle /\ RelayIdle
    /\ x_user = alice /\ x_msg = <<>>
    /\ x_pc = "off" /\ x_file = <<>> /\ x_name = <<>> /\ x_target = NoneV
    /\ x_i = 0 /\ wire = <<>>
    /\ rx_pc = "read" /\ rx_wire \in DownWires /\ rx_done = <<>>
    /\ rx_file_name = NoneV /\ rx_temp_file = NoneV
    /\ rx_inbox = EmptyDir /\ rx_shown = <<>>

NextReceive ==
    \/ ClientRecvEOF \/ ClientRecvBlank \/ ClientRecvFileBegin \/ ClientRecvFileEnd
    \/ ClientRecvChunk \/ ClientRecvMessage

SpecReceive == InitReceive /\ [][NextReceive]_vars

\* a connected client at its prompt, one file in its outbox, the user types
\* one line
SendSizes == {0, 1, 3, 384, 385}

InitSend ==
    /\ CipherIdle /\ LedgerIdle /\ RelayIdle /\ ReceiveIdle
    /\ x_user = alice /\ x_msg = <<>>
    /\ x_pc = "prompt" /\ x_i = 0 /\ wire = <<>>
    /\ x_file \in {PatternBytes(n) : n \in SendSizes}
    /\ x_name \in TransferNames
    /\ x_target = NoneV

NextSend ==
    \/ ClientCommand
    \/ ClientSendHeader \/ ClientSendChunk \/ ClientSendEnd

SpecSend == InitSend /\ [][NextSend]_vars

\* a client from its connect on: the username, the two loops started, one
\* line typed at the prompt
InitConnect ==
    /\ CipherIdle /\ LedgerIdle /\ RelayIdle /\ ReceiveIdle
    /\ x_user \in {alice, <<>>, ServerName} /\ x_msg = <<>>
    /\ x_pc = "hello" /\ x_i = 0 /\ wire = <<>>
    /\ x_file \in {PatternBytes(n) : n \in SendSizes}
    /\ x_name \in TransferNames
    /\ x_target = NoneV

NextConnect ==
    \/ ClientSendUsername \/ ClientStartLoops \/ ClientCommand
    \/ ClientSendHeader \/ ClientSendChunk \/ ClientSendEnd

SpecConnect == InitConnect /\ [][NextConnect]_vars

\* what a peer may write to the relay during and around a file reception: the
\* markers, with a filename and without one, a chunk, a chat line, a command,
\* a blank line
UpLines ==
    {FileBeginLine(doc, NoneV), FileBeginLine(<<>>, NoneV), FileEndLine,
     Encrypt(B64Encode(<<1>>), ServerPassword),
     Encrypt(<<"hi">>, ServerPassword),
     Encrypt(<<"__CMD_DOWNLOAD__:">> \o doc, ServerPassword),
     PlainLine(<<>>)}

UpWires == UNION {[1..k -> UpLines] : k \in 1..MaxUpLines}

\* alice's client has written some lines; the relay's handler of her session
\* reads them while bob's session is registered too
InitChunks ==
    /\ CipherIdle /\ LedgerIdle
    /\ running = TRUE /\ main_pc = "accept" /\ main_sock = 0 /\ exit_cause = "none" /\ notified = Unwatched /\ clients_lock = Unlocked
    /\ clients = <<[sock |-> 1, user |-> alice], [sock |-> 2, user |-> bob]>>
    /\ conn = [s \in Socks |->
                 IF s = 1 THEN ReadingConn(alice)
                 ELSE IF s = 2 THEN ReadingConn(bob) ELSE FreeConn]
    /\ dir = EmptyDir /\ inodes = EmptyDir
    /\ relay_target = NoRelayTarget
    /\ sent = <<>> /\ last = NoLast
    /\ ReceiveIdle
    /\ x_user = alice /\ x_msg = <<>>
    /\ x_pc = "sent" /\ x_i = 0 /\ x_file = <<>> /\ x_name = <<>> /\ x_target = NoneV
    /\ wire \in UpWires

NextChunks ==
    \/ RecvFileBegin \/ RecvChunk \/ RecvFileEnd
    \/ RecvBlank \/ ChatLine \/ CmdDownload

SpecChunks == InitChunks /\ [][NextChunks]_vars

\* carol's client asks twice for a download, of a file's final name or of
\* its sink's name, while alice's session uploads, privately or not
AskLines ==
    {Encrypt(<<"__CMD_DOWNLOAD__:">> \o f, ServerPassword) : f \in RelayFiles}
      \cup {Encrypt(<<"__CMD_DOWNLOAD__:">> \o TmpPath(f), ServerPassword) : f \in RelayFiles}

AskWires == [1..2 -> AskLines]

InitPrivate ==
    /\ CipherIdle /\ LedgerIdle
    /\ running = TRUE /\ main_pc = "accept" /\ main_sock = 0 /\ exit_cause = "none" /\ notified = Unwatched /\ clients_lock = Unlocked
    /\ clients = <<[sock |-> 1, user |-> carol], [sock |-> 2, user |-> alice]>>
    /\ conn = [s \in Socks |->
                 IF s = 1 THEN ReadingConn(carol)
                 ELSE IF s = 2 THEN ReadingConn(alice) ELSE FreeConn]
    /\ dir = EmptyDir /\ inodes = EmptyDir
    /\ relay_target = NoRelayTarget
    /\ sent = <<>> /\ last = NoLast
    /\ ReceiveIdle
    /\ x_user = carol /\ x_msg = <<>>
    /\ x_pc = "sent" /\ x_i = 0 /\ x_file = <<>> /\ x_name = <<>> /\ x_target = NoneV
    /\ wire \in AskWires

NextPrivate ==
    \/ RecvFileBegin \/ RecvChunk \/ RecvFileEnd
    \/ CmdDownload \/ RecvEOF

SpecPrivate == InitPrivate /\ [][NextPrivate]_vars

\* the relay's threads taking turns at the registry
NextLock ==
    \/ MainAccept \/ LkDupEnter \/ LkDupCheck \/ LkDupAdd
    \/ LkCloseEnter \/ LkCloseLeave
    \/ LkBroadcastEnter \/ LkBroadcastNext \/ LkBroadcastLeave
    \/ LkLookupEnter \/ LkLookupLeave
    \/ LkExitEnter \/ LkExitLeave \/ LkLeaveEnter
    \/ PeerReset

SpecLock == Init /\ [][NextLock]_vars

\* ---- send_file_to_client, sendall by sendall ----
\* The stream of a download is written to the requester's socket by the
\* requester's own handler thread, one sendall per line, with no lock held;
\* between two of its lines another handler's broadcast may write to the same
\* socket.  The lines written to the modelled client's socket arrive on rx_wire
\* in the order of the writes.
ClientSock == 1
LinesTo(sock, writes) ==
    LET got == SelectSeq(writes, LAMBDA w : w.to = sock /\ w.ok)
    IN  [k \in 1..Len(got) |-> got[k].line]
Deliver(writes) == rx_wire' = rx_wire \o LinesTo(ClientSock, writes)
DlClientSame ==
    UNCHANGED <<x_user, x_msg, x_pc, x_file, x_name, x_target, x_i,
                rx_pc, rx_done, rx_file_name, rx_temp_file, rx_inbox, rx_shown>>

\* the download branch up to the header:  sock.sendall(f"__FILE__:{filename}\n")
\* and the file read and encoded
DownloadBegin ==
    /\ \E s \in Socks : \E line \in NextLines(s) : \E pad \in PadsFor(line) :
        LET u == conn[s].user
            filename == Tail(MessageOf(line, pad))
            verdict == CanDownload(permissions, filename, u)
            header == <<WriteRec(conn, s, FileBeginLine(filename, NoneV))>>
        IN  /\ conn[s].pc = "read"
            /\ ~Receiving(conn[s]) /\ IsCommand(line, pad, "__CMD_DOWNLOAD__:")
            /\ IsFile(dir, filename) /\ verdict[1]
            /\ conn' = [conn EXCEPT
                          ![s].pc = IF ~WriteOk(conn, s) THEN "read" ELSE "dl",
                          ![s].iter = 0,
                          ![s].b64_data = Chunks(B64Encode(FileBytes(dir, inodes, filename)),
                                                 ChunkSize)]
            /\ sent' = header
            /\ Deliver(header)
            /\ last' = Step("download", s, filename, clients)
            /\ wire' = IF Wired(s) THEN Tail(wire) ELSE wire
    /\ DlClientSame
    /\ UNCHANGED <<clients, mainVars, fsVars, relay_target, cipherVars, ledgerVars>>

\* for i in range(0, len(b64_data), chunk_size):  one chunk encrypted and sent
DownloadChunk ==
    /\ \E s \in Socks :
        LET i == conn[s].iter + 1
            chunk == <<WriteRec(conn, s, Encrypt(conn[s].b64_data[i], ServerPassword))>>
        IN  /\ conn[s].pc = "dl" /\ conn[s].iter < Len(conn[s].b64_data)
            /\ conn' = [conn EXCEPT
                          ![s].pc = IF ~WriteOk(conn, s) THEN "read" ELSE "dl",
                          ![s].iter = i]
            /\ sent' = chunk
            /\ Deliver(chunk)
    /\ last' = NoLast
    /\ DlClientSame
    /\ UNCHANGED <<clients, mainVars, fsVars, relay_target, wire, cipherVars, ledgerVars>>

\* sock.sendall(b"__END__\n")  and back to the handler's loop
DownloadEnd ==
    /\ \E s \in Socks :
        LET marker == <<WriteRec(conn, s, FileEndLine)>>
        IN  /\ conn[s].pc = "dl" /\ conn[s].iter = Len(conn[s].b64_data)
            /\ conn' = [conn EXCEPT ![s].pc = "read", ![s].b64_data = <<>>, ![s].iter = 0]
            /\ sent' = marker
            /\ Deliver(marker)
    /\ last' = NoLast
    /\ DlClientSame
    /\ UNCHANGED <<clients, mainVars, fsVars, relay_target, wire, cipherVars, ledgerVars>>

\* every line written to the client's socket so far, read or not
Written == rx_done \o rx_wire
IsChatEnvelope(line) ==
    /\ line.kind = "env" /\ Len(line.text) >= 2
    /\ \E u \in {bob, carol} : line.text = ChatText(u, SubSeq(line.text, 3, Len(line.text)))
ChatsWritten == Cardinality({k \in 1..Len(Written) : IsChatEnvelope(Written[k])})

\* a chat line of another session, broadcast while the others do what they do
ChatLineDuring ==
    /\ \E s \in Socks \ {ClientSock} : \E line \in NextLines(s) : \E pad \in PadsFor(line) :
        LET u == conn[s].user
            out == Encrypt(ChatText(u, MessageOf(line, pad)), ServerPassword)
            writes == BroadcastWrites(clients, conn, out, Some(u))
        IN  /\ conn[s].pc = "read"
            /\ ~Receiving(conn[s]) /\ IsChat(line, pad)
            /\ ChatsWritten < MaxClientLines
            /\ conn' = [conn EXCEPT ![s].pc = IF running THEN "read" ELSE "loop"]
            /\ clients' = AfterBroadcast(clients, conn, Some(u))
            /\ sent' = writes
            /\ Deliver(writes)
            /\ last' = Step("chat", s, MessageOf(line, pad), clients)
    /\ DlClientSame
    /\ UNCHANGED <<mainVars, fsVars, relay_target, wire, cipherVars, ledgerVars>>

DownloadSizes == {1, 385}
InitDownload ==
    /\ CipherIdle /\ LedgerIdle
    /\ running = TRUE /\ main_pc = "accept" /\ main_sock = 0 /\ exit_cause = "none" /\ notified = Unwatched /\ clients_lock = Unlocked
    /\ clients = <<[sock |-> 1, user |-> alice], [sock |-> 2, user |-> bob]>>
    /\ conn = [s \in Socks |->
                 IF s = 1 THEN ReadingConn(alice)
                 ELSE IF s = 2 THEN ReadingConn(bob) ELSE FreeConn]
    /\ dir = [q \in {doc} |-> 1]
    /\ \E n \in DownloadSizes : inodes = [k \in {1} |-> PatternBytes(n)]
    /\ relay_target = NoRelayTarget
    /\ sent = <<>> /\ last = NoLast
    /\ rx_pc = "read" /\ rx_wire = <<>> /\ rx_done = <<>>
    /\ rx_file_name = NoneV /\ rx_temp_file = NoneV
    /\ rx_inbox = EmptyDir /\ rx_shown = <<>>
    /\ x_user = alice /\ x_msg = <<>>
    /\ x_pc = "sent" /\ x_i = 0 /\ x_file = <<>> /\ x_name = <<>> /\ x_target = NoneV
    /\ wire = <<Encrypt(<<"__CMD_DOWNLOAD__:">> \o doc, ServerPassword)>>

NextDownload ==
    \/ DownloadBegin \/ DownloadChunk \/ DownloadEnd \/ ChatLineDuring
    \/ ClientRecvFileBegin \/ ClientRecvChunk \/ ClientRecvFileEnd \/ ClientRecvMessage

SpecDownload == InitDownload /\ [][NextDownload]_vars

\* line k of the socket lies inside a stream: after a FileBegin, with no
\* FileEnd from it up to k
InStream(k) ==
    \E i \in 1..(k - 1) :
        /\ IsFileBegin(Written[i])
        /\ \A j \in (i + 1)..k : ~IsFileEnd(Written[j])
StoredChunks == Chunks(B64Encode(FileBytes(dir, inodes, doc)), ChunkSize)
StreamOver ==
    /\ \A s \in Socks : conn[s].pc # "dl"
    /\ wire = <<>> /\ rx_wire = <<>>
    /\ \E k \in 1..Len(rx_done) : IsFileEnd(rx_done[k])

\* C27: while a download is streamed to a client, every line written to that
\* client's socket between the stream's FileBegin and its FileEnd is a chunk
\* of the file, never the envelope of a broadcast or a private message; and
\* once the client has read the stream its file equals the stored one
C27_StreamUninterrupted ==
    /\ \A k \in 1..Len(Written) :
          InStream(k) =>
             \E n \in 1..Len(StoredChunks) :
                 Written[k] = Encrypt(StoredChunks[n], ServerPassword)
    /\ StreamOver => /\ doc \in DOMAIN rx_inbox
                     /\ rx_inbox[doc] = FileBytes(dir, inodes, doc)

\* two registered sessions whose peers may reset their connections while
\* handlers and the operator broadcast; a handler whose peer is gone reads
\* the end of its input and goes through finally
InitDead ==
    /\ CipherIdle /\ LedgerIdle /\ ClientIdle
    /\ running = TRUE /\ main_pc = "accept" /\ main_sock = 0 /\ exit_cause = "none" /\ notified = Unwatched /\ clients_lock = Unlocked
    /\ clients = <<[sock |-> 1, user |-> alice], [sock |-> 2, user |-> bob]>>
    /\ conn = [s \in Socks |->
                 IF s = 1 THEN ReadingConn(alice)
                 ELSE IF s = 2 THEN ReadingConn(bob) ELSE FreeConn]
    /\ dir = EmptyDir /\ inodes = EmptyDir
    /\ relay_target = NoRelayTarget
    /\ sent = <<>> /\ last = NoLast

NextDead ==
    \/ PeerReset \/ LkOperatorSay
    \/ LkBroadcastEnter \/ LkBroadcastNext \/ LkBroadcastLeave
    \/ LkExitEnter \/ LkExitLeave \/ LkLeaveEnter

\* readline on a connection whose peer is gone returns '' or raises, after
\* the lines that were still buffered: the handler reaches finally
HandlerEnds(s) ==
    /\ LkExitEnter
    /\ ~conn[s].wok /\ conn[s].pc = "read" /\ conn'[s].pc = "lk_exit"
\* finally's broadcast gets the lock
HandlerLeaves(s) ==
    /\ LkLeaveEnter
    /\ conn[s].pc = "leaving" /\ conn'[s].pc = "lk_bcast"

\* a thread inside a with block runs on; a thread waiting for the lock or
\* for the end of a dead connection's input gets there
SpecDead ==
    /\ InitDead /\ [][NextDead]_vars
    /\ WF_vars(LkBroadcastNext) /\ WF_vars(LkBroadcastLeave) /\ WF_vars(LkExitLeave)
    /\ \A s \in Socks : SF_vars(HandlerEnds(s)) /\ SF_vars(HandlerLeaves(s))

\* the session of a running handler has been removed by a broadcast
Swept(s) == conn[s].open /\ conn[s].pc = "read" /\ ~InRegistry(clients, s)
\* the registry without the sessions a broadcast collected as dead
WithoutDead(cl, dead) ==
    SelectSeq(cl, LAMBDA c : \A k \in 1..Len(dead) : dead[k] # c.sock)
\* one turn of a handler's iteration over the registry, as C28 reads it
TurnKeepsRegistry(s) ==
    LET c == clients[conn[s].iter]
        skipped == conn[s].after = "read" /\ c.user = conn[s].user
    IN  /\ clients' = clients
        /\ (conn'[s].iter = conn[s].iter + 1 /\ ~skipped) =>
              /\ sent' = <<[to |-> c.sock, line |-> BroadcastLine(s),
                            ok |-> WriteOk(conn, c.sock)]>>
              /\ conn'[s].dead = IF WriteOk(conn, c.sock) THEN conn[s].dead
                                 ELSE Append(conn[s].dead, c.sock)
              /\ conn[s].after = "closed" =>
                    sent'[1].line = Encrypt(LeaveNotice(conn[s].user), ServerPassword)
\* the operator's broadcast: every session of the registry written, in
\* order, those whose write failed removed
SayWritesAll ==
    last.op = "say" =>
       /\ Len(sent) = Len(last.before)
       /\ \A i \in 1..Len(sent) : sent[i].to = last.before[i].sock
       /\ clients = SelectSeq(last.before, LAMBDA c :
                       \E i \in 1..Len(sent) : sent[i].to = c.sock /\ sent[i].ok)

InitUploads ==
    /\ CipherIdle /\ LedgerIdle /\ ClientIdle
    /\ running = TRUE /\ main_pc = "accept" /\ main_sock = 0 /\ exit_cause = "none" /\ notified = Unwatched /\ clients_lock = Unlocked
    /\ clients = <<[sock |-> 1, user |-> dave], [sock |-> 2, user |-> erin]>>
    /\ conn = [s \in Socks |->
                 IF s = 1 THEN ReadingConn(dave)
                 ELSE IF s = 2 THEN ReadingConn(erin) ELSE FreeConn]
    /\ dir = EmptyDir /\ inodes = EmptyDir
    /\ relay_target = NoRelayTarget
    /\ sent = <<>> /\ last = NoLast

NextUploads ==
    \/ RecvFileBegin \/ RecvChunk \/ RecvFileEnd \/ RecvEOF

SpecUploads == InitUploads /\ [][NextUploads]_vars

FailedSteps == {"open_failed", "rename_failed"}
SharedFinals(d) == DOMAIN d \cap RelayFiles

\* C29: when opening the temporary sink or renaming it at FileEnd fails, the
\* transfer is abandoned, the sink is deleted, no ledger record and no final
\* file are created, and the connection continues: the session stays
\* registered and its handler keeps reading
C29_FailedReceptionContinues ==
    [][\A s \in Socks :
         (conn[s].pc = "read" /\ last'.op \in FailedSteps /\ last'.sock = s) =>
            /\ conn'[s].pc = "read"
            /\ ~conn'[s].temp.some
            /\ InRegistry(clients', s)
            /\ ~IsFile(dir', TmpPath(last'.arg))
            /\ permissions' = permissions
            /\ SharedFinals(dir') = SharedFinals(dir)]_vars

\* the decoded chunks a reception has been given so far, in order
ReceivedBytes(c) ==
    LET chunk == CHOOSE d \in ChunkData : TRUE
    IN  [i \in 1..c.temp.pos |-> chunk[1]]
\* this step is the FileEnd that completes an upload of f
CompletesUpload(f) == last'.op = "file_end" /\ last'.arg = f /\ last' # last

\* C30: a file appears under its final name, and gets or changes its ledger
\* record, only by the FileEnd of an upload, and its content then and from
\* then on is exactly the decoded chunks of that one upload in order,
\* whatever other connections upload at the same time, the same filename
\* included, and whichever uploads are cut off by a disconnect
C30_FinalFileIsOneUpload ==
    [][/\ \A s \in Socks :
            (Receiving(conn[s]) /\ CompletesUpload(conn[s].file_name.v) /\ last'.sock = s) =>
               /\ IsFile(dir', last'.arg)
               /\ last'.arg \in DOMAIN permissions'
               /\ FileBytes(dir', inodes', last'.arg) = ReceivedBytes(conn[s])
       /\ \A f \in RelayFiles :
            /\ (IsFile(dir', f) /\ ~IsFile(dir, f)) => CompletesUpload(f)
            /\ (IsFile(dir', f) /\ IsFile(dir, f)
                  /\ FileBytes(dir', inodes', f) # FileBytes(dir, inodes, f))
                 => CompletesUpload(f)
            /\ (f \in DOMAIN permissions'
                  /\ (f \notin DOMAIN permissions \/ permissions'[f] # permissions[f]))
                 => CompletesUpload(f)]_vars

\* connections come and get registered, peers reset their connections with
\* lines still unread, the operator talks, handlers answer Download commands
InitOrphan == CipherIdle /\ LedgerIdle /\ RelayIdle /\ ClientIdle

NextOrphan ==
    \/ MainAccept \/ MainRecvUsername \/ HandlerStart
    \/ PeerReset \/ OperatorSay \/ CmdDownload

SpecOrphan == InitOrphan /\ [][NextOrphan]_vars

\* the handler thread of socket s is in its loop, or about to enter it
HandlerLive(s) == conn[s].pc \in {"start", "read", "list"}

\* C31: the session of a handler that reads or processes lines is in the
\* registry; so no two live handlers have one username, and the reply to a
\* command, unicast by username, is written to the socket of the connection
\* that sent the command
C31_HandlerSessionRegistered ==
    /\ \A s \in Socks : HandlerLive(s) => InRegistry(clients, s)
    /\ \A s, t \in Socks :
          (s # t /\ HandlerLive(s) /\ HandlerLive(t)) => conn[s].user # conn[t].user
    /\ last.op = "download" =>
          /\ Len(sent) = 1
          /\ sent[1].to = last.sock

\* run is inside sock.recv(1024) for a username that has not arrived
AwaitsUsername == running /\ main_pc = "recv" /\ ~ENABLED MainRecvUsername
\* a peer is connecting
PeerConnecting == \E t \in Socks : conn[t].pc = "free"
\* a registered session's handler has a chat line to read
ChatPending ==
    \E t \in Socks : \E line \in NextLines(t) : \E pad \in PadsFor(line) :
        conn[t].pc = "read" /\ ~Receiving(conn[t]) /\ IsChat(line, pad)

\* C32: handling one connection does not block the handling of another:
\* while a peer has connected and not yet sent its username, other
\* connections are accepted and other sessions' lines are relayed
C32_SilentPeerBlocksNobody ==
    AwaitsUsername =>
       /\ PeerConnecting => ENABLED MainAccept
       /\ ChatPending => ENABLED ChatLine

\* the handler of socket s has the file of inode i open for writing
HoldsOpen(s, i) == conn[s].temp.some /\ conn[s].temp.ino = i

\* C33: apart from the registry no relay-owned state is in the hands of two
\* handler threads at once: a temporary sink a handler has open is open in
\* no other handler
C33_SinkOfOneHandler ==
    \A s, t \in Socks : \A i \in DOMAIN inodes :
        (HoldsOpen(s, i) /\ HoldsOpen(t, i)) => s = t

ServeCheck ==
    /\ \E s \in Socks : \E line \in NextLines(s) : \E pad \in PadsFor(line) :
        LET u == conn[s].user
            filename == Tail(MessageOf(line, pad))
            verdict == CanDownload(permissions, filename, u)
            error == IF ~IsFile(dir, filename) THEN NotFoundError(filename)
                     ELSE DeniedError(filename, verdict[2])
            writes == UnicastWrites(clients, conn, u, Encrypt(error, ServerPassword))
        IN  /\ conn[s].pc = "read"
            /\ ~Receiving(conn[s]) /\ IsCommand(line, pad, "__CMD_DOWNLOAD__:")
            /\ IF IsFile(dir, filename) /\ verdict[1]
               THEN /\ conn' = [conn EXCEPT ![s].pc = "dl_header", ![s].filepath = filename]
                    /\ sent' = <<>>
                    /\ UNCHANGED rx_wire
               ELSE /\ conn' = conn
                    /\ sent' = writes
                    /\ Deliver(writes)
            /\ last' = Step("download", s, filename, clients)
            /\ wire' = IF Wired(s) THEN Tail(wire) ELSE wire
    /\ DlClientSame
    /\ UNCHANGED <<clients, mainVars, fsVars, relay_target, cipherVars, ledgerVars>>

\* sock.sendall(f"__FILE__:{filename}\n".encode())
ServeHeader ==
    /\ \E s \in Socks :
        LET header == <<WriteRec(conn, s, FileBeginLine(conn[s].filepath, NoneV))>>
        IN  /\ conn[s].pc = "dl_header"
            /\ conn' = [conn EXCEPT ![s].pc = IF ~WriteOk(conn, s) THEN "read" ELSE "dl_open"]
            /\ sent' = header
            /\ Deliver(header)
    /\ last' = NoLast
    /\ DlClientSame
    /\ UNCHANGED <<clients, mainVars, fsVars, relay_target, wire, cipherVars, ledgerVars>>

\* with open(filepath, 'rb') as f:  file_data = f.read() and the encoding;
\* an open that raises is caught by  except Exception  at the end of
\* send_file_to_client, which logs and returns
ServeOpen ==
    /\ \E s \in Socks :
        /\ conn[s].pc = "dl_open"
        /\ conn' = IF IsFile(dir, conn[s].filepath)
                   THEN [conn EXCEPT
                           ![s].pc = "dl", ![s].iter = 0,
                           ![s].b64_data = Chunks(B64Encode(FileBytes(dir, inodes, conn[s].filepath)),
                                                  ChunkSize)]
                   ELSE [conn EXCEPT ![s].pc = "read"]
    /\ sent' = <<>>
    /\ last' = NoLast
    /\ UNCHANGED rx_wire
    /\ DlClientSame
    /\ UNCHANGED <<clients, mainVars, fsVars, relay_target, wire, cipherVars, ledgerVars>>

ServeSizes == {0, 1}
InitServe ==
    /\ CipherIdle /\ LedgerIdle
    /\ running = TRUE /\ main_pc = "accept" /\ main_sock = 0 /\ exit_cause = "none" /\ notified = Unwatched /\ clients_lock = Unlocked
    /\ clients = <<[sock |-> 1, user |-> alice], [sock |-> 2, user |-> bob]>>
    /\ conn = [s \in Socks |->
                 IF s = 1 THEN ReadingConn(alice)
                 ELSE IF s = 2
                 THEN [ReadingConn(bob) EXCEPT
                         !.file_name = Some(doc),
                         !.temp = [some |-> TRUE, ino |-> 1, pos |-> 0],
                         !.sinks = {1}]
                 ELSE FreeConn]
    /\ dir = [q \in {TmpPath(doc)} |-> 1]
    /\ \E n \in ServeSizes : inodes = [k \in {1} |-> PatternBytes(n)]
    /\ relay_target = NoRelayTarget
    /\ sent = <<>> /\ last = NoLast
    /\ rx_pc = "read" /\ rx_wire = <<>> /\ rx_done = <<>>
    /\ rx_file_name = NoneV /\ rx_temp_file = NoneV
    /\ rx_inbox = EmptyDir /\ rx_shown = <<>>
    /\ x_user = alice /\ x_msg = <<>>
    /\ x_pc = "sent" /\ x_i = 0 /\ x_file = <<>> /\ x_name = <<>> /\ x_target = NoneV
    /\ wire = <<Encrypt(<<"__CMD_DOWNLOAD__:">> \o TmpPath(doc), ServerPassword)>>

NextServe ==
    \/ ServeCheck \/ ServeHeader \/ ServeOpen \/ DownloadChunk \/ DownloadEnd
    \/ RecvFileEnd \/ ChatLineDuring
    \/ ClientRecvFileBegin \/ ClientRecvChunk \/ ClientRecvFileEnd \/ ClientRecvMessage

\* every thread of the relay and of the client keeps running
SpecServe == InitServe /\ [][NextServe]_vars /\ WF_vars(NextServe)

\* a FileBegin written to the client's socket with no FileEnd written after it
HeaderPending ==
    \E k \in 1..Len(Written) :
        /\ IsFileBegin(Written[k])
        /\ \A j \in (k + 1)..Len(Written) : ~IsFileEnd(Written[j])

\* C35: every FileBegin the relay writes to a client for a Download is
\* eventually followed on that connection by a FileEnd, unless the connection
\* is closed
C35_HeaderFollowedByEnd ==
    HeaderPending ~> (~HeaderPending \/ ~conn[ClientSock].open)

\* the steps a thread takes inside a with block, up to the one that leaves it
HolderStep ==
    \/ LkBroadcastNext \/ LkBroadcastLeave \/ LkLookupLeave \/ LkExitLeave
    \/ LkDupCheck \/ LkDupAdd \/ LkCloseLeave

\* the steps that enter a with block
EnterStep ==
    \/ LkBroadcastEnter \/ LkLookupEnter \/ LkExitEnter \/ LkLeaveEnter
    \/ LkDupEnter \/ LkCloseEnter

\* the threads at a statement that is next followed by a with block
AtEntry ==
    {s \in Socks : conn[s].pc \in {"start", "read", "leaving"}}
      \cup (IF main_pc \in {"recv", "accept", "raised"} THEN {MainThread} ELSE {})

(* C36: a thread outside every with block of the registry's lock holds
   nothing (each block releases the lock however it is left: after a failed
   write, by the continue of the duplicate rejection, by the return inside
   unicast), so a thread that enters a block never holds the lock already;
   the holder of the lock always has a step to take that needs no lock, and
   a free lock lets a waiting thread in: the threads never deadlock on it. *)
C36_NoDeadlockOnLock ==
    /\ [](/\ \A t \in AtEntry : clients_lock # HeldBy(t)
          /\ clients_lock.held => ENABLED HolderStep
          /\ (~clients_lock.held /\ AtEntry # {}) => ENABLED EnterStep)
    /\ [][\A t \in Socks \cup {MainThread} :
            (clients_lock' = HeldBy(t) /\ clients_lock # clients_lock')
                => (~clients_lock.held /\ t \in AtEntry)]_vars

\* the duplicate rejection has left its block by an exception of sendall
\* while a handler waits to broadcast
C36_Witness ==
    /\ main_pc = "raised"
    /\ ~clients_lock.held
    /\ \E s \in Socks : conn[s].pc = "read" /\ ENABLED LkBroadcastEnter

\* ---- filenames with parent-directory components ----
\* the path <shared folder>/<filename> names a place outside the shared
\* folder: at some component ".." more steps lead up than names led down
Escapes(path) ==
    \E i \in 1..Len(path) :
        /\ path[i] = ".."
        /\ Cardinality({k \in 1..i : path[k] = ".."})
             > Cardinality({k \in 1..(i - 1) :
                              /\ path[k] \notin {"/", ".."}
                              /\ (k = 1 \/ path[k - 1] = "/")})

EscapeFiles == {doc, LedgerName}
EscapeLines ==
    {Encrypt(<<"__CMD_DOWNLOAD__:">> \o f, ServerPassword) : f \in EscapeFiles}
      \cup {FileBeginLine(f, NoneV) : f \in EscapeFiles}
      \cup {FileEndLine, Encrypt(B64Encode(<<1>>), ServerPassword)}
EscapeWires == UNION {[1..k -> EscapeLines] : k \in 1..MaxUpLines}

\* alice has uploaded doc and left: the ledger has been saved beside the
\* shared folder (its text is metadata; inode 1 stands for its place).
\* carol's client has written some lines
InitEscape ==
    /\ CipherIdle
    /\ permissions = AddFile(NoPermissions, doc, alice, NoneV, 1, 0)
    /\ metadata = SavePermissions(permissions)
    /\ running = TRUE /\ main_pc = "accept" /\ main_sock = 0 /\ exit_cause = "none" /\ notified = Unwatched /\ clients_lock = Unlocked
    /\ clients = <<[sock |-> 1, user |-> carol]>>
    /\ conn = [s \in Socks |-> IF s = 1 THEN ReadingConn(carol) ELSE FreeConn]
    /\ dir = [q \in {doc, LedgerName} |-> IF q = LedgerName THEN 1 ELSE 2]
    /\ inodes = [k \in {1, 2} |-> IF k = 1 THEN PatternBytes(2) ELSE PatternBytes(1)]
    /\ relay_target = NoRelayTarget
    /\ sent = <<>> /\ last = NoLast
    /\ ReceiveIdle
    /\ x_user = carol /\ x_msg = <<>>
    /\ x_pc = "sent" /\ x_i = 0 /\ x_file = <<>> /\ x_name = <<>> /\ x_target = NoneV
    /\ wire \in EscapeWires

NextEscape == RecvFileBegin \/ RecvChunk \/ RecvFileEnd \/ CmdDownload

SpecEscape == InitEscape /\ [][NextEscape]_vars

\* the paths a step creates, renames or writes
Touched ==
    {p \in DOMAIN dir' : p \notin DOMAIN dir \/ dir'[p] # dir[p]}
      \cup {p \in DOMAIN dir : p \notin DOMAIN dir'}
      \cup {p \in DOMAIN dir \cap DOMAIN dir' :
              dir'[p] = dir[p] /\ inodes'[dir'[p]] # inodes[dir[p]]}

\* the path a step streams to a client
Streamed ==
    IF last'.op = "download" /\ \E k \in 1..Len(sent') : IsFileBegin(sent'[k].line)
    THEN {last'.arg} ELSE {}

\* C37: every file the relay reads to serve a Download and every file it
\* creates, writes or renames while receiving lies inside the shared folder,
\* whatever the filename; the ledger's file is neither streamed nor replaced
C37_InsideSharedFolder ==
    [][/\ \A p \in Touched \cup Streamed : ~Escapes(p)
       /\ LedgerName \notin Streamed
       /\ dir'[LedgerName] = dir[LedgerName]]_vars

\* ---- send_to_client called by a handler ----
UnicastTargets == {alice, bob, carol}

\* self.send_to_client(username, message) from a handler's loop; what it
\* returned is kept in the step's record
UnicastCall ==
    /\ \E s \in Socks : \E username \in UnicastTargets :
        /\ conn[s].pc = "read"
        /\ sent' = UnicastWrites(clients, conn, username, Encrypt(<<"hi">>, ServerPassword))
        /\ last' = Step(IF SendToClient(clients, conn, username)
                        THEN "unicast_true" ELSE "unicast_false",
                        s, username, clients)
    /\ UNCHANGED <<clients, mainVars, conn, fsVars, relay_target,
                   cipherVars, ledgerVars, xferVars>>

NextUnicast ==
    \/ MainAccept \/ MainRecvUsername \/ HandlerStart \/ PeerReset \/ UnicastCall

SpecUnicast == InitOrphan /\ [][NextUnicast]_vars

\* C38: send_to_client writes to at most one session, a registered one named
\* as the target, and returns True exactly when that write succeeded; with no
\* session of that name it writes nothing and returns False; the registry is
\* as before, also after a write that failed
C38_UnicastOneOrNone ==
    last.op \in {"unicast_true", "unicast_false"} =>
        LET named == {i \in 1..Len(last.before) : last.before[i].user = last.arg}
        IN  /\ clients = last.before
            /\ Len(sent) <= 1
            /\ named = {} => (sent = <<>> /\ last.op = "unicast_false")
            /\ named # {} => /\ Len(sent) = 1
                             /\ \E i \in named : sent[1].to = last.before[i].sock
            /\ last.op = "unicast_true" <=> (Len(sent) = 1 /\ sent[1].ok)

\* a unicast whose write failed: False returned, the session still registered
C38_Witness ==
    /\ last.op = "unicast_false"
    /\ Len(sent) = 1 /\ ~sent[1].ok
    /\ InRegistry(clients, sent[1].to)
    /\ Len(clients) = MaxConn

\* C39: an Upload or SendTo command leaves the ledger, the shared folder, the
\* registry and every connection's reception state as they are; with a named
\* target that is not registered exactly one error is written, to the sender;
\* with a registered target (or none named) nothing is written to anybody
C39_CommandsAnswerOnlySender ==
    [][last'.op \in {"upload", "upload_public", "sendto", "sendto_malformed"} =>
        /\ UNCHANGED <<permissions, metadata, dir, inodes, clients>>
        /\ \A s \in Socks :
              /\ conn'[s].file_name = conn[s].file_name
              /\ conn'[s].file_target = conn[s].file_target
              /\ conn'[s].temp = conn[s].temp
        /\ IF last'.op \in {"upload", "sendto"} /\ ~Registered(clients, last'.arg)
           THEN Len(sent') = 1 /\ sent'[1].to = last'.sock
           ELSE sent' = <<>>]_vars

\* ---- a file sent by the client and a file sent by the relay ----
\* the peer goes away while the relay is in send_file_to_client: the next
\* sendall raises
PeerResetDuring ==
    /\ \E s \in Socks :
        /\ conn[s].pc \in {"dl_header", "dl_open", "dl"}
        /\ conn[s].wok
        /\ conn' = [conn EXCEPT ![s].wok = FALSE]
    /\ last' = NoLast
    /\ sent' = <<>>
    /\ UNCHANGED <<mainVars, clients, fsVars, relay_target,
                   cipherVars, ledgerVars, xferVars>>

\* sizes around one and two chunks of base64: 384 bytes give 512 characters,
\* 385 give 516, 769 give 1028
StreamSizes == {0, 1, 384, 385, 769}

\* alice's client uploads a file from its outbox and has asked for doc, which
\* lies in the shared folder
InitStreams ==
    /\ CipherIdle /\ LedgerIdle
    /\ running = TRUE /\ main_pc = "accept" /\ main_sock = 0 /\ exit_cause = "none" /\ notified = Unwatched /\ clients_lock = Unlocked
    /\ clients = <<[sock |-> 1, user |-> alice]>>
    /\ conn = [s \in Socks |-> IF s = 1 THEN ReadingConn(alice) ELSE FreeConn]
    /\ dir = [q \in {doc} |-> 1]
    /\ \E n \in StreamSizes : inodes = [k \in {1} |-> PatternBytes(n)]
    /\ relay_target = NoRelayTarget
    /\ sent = <<>> /\ last = NoLast
    /\ rx_pc = "read" /\ rx_wire = <<>> /\ rx_done = <<>>
    /\ rx_file_name = NoneV /\ rx_temp_file = NoneV
    /\ rx_inbox = EmptyDir /\ rx_shown = <<>>
    /\ x_user = alice /\ x_msg = <<>>
    /\ x_pc = "header" /\ x_i = 0 /\ x_name = <<"up">> /\ x_target = NoneV
    /\ x_file \in {PatternBytes(n) : n \in StreamSizes}
    /\ wire = <<Encrypt(<<"__CMD_DOWNLOAD__:">> \o doc, ServerPassword)>>

NextStreams ==
    \/ ClientSendHeader \/ ClientSendChunk \/ ClientSendEnd
    \/ ServeCheck \/ ServeHeader \/ ServeOpen \/ DownloadChunk \/ DownloadEnd
    \/ PeerReset \/ PeerResetDuring

SpecStreams == InitStreams /\ [][NextStreams]_vars

\* the k-th line of the stream of a file named name whose base64 text is b64
ExpectedLine(name, b64, k) ==
    LET L == Len(b64)
        n == (L + ChunkSize - 1) \div ChunkSize
        upto == IF (k - 1) * ChunkSize < L THEN (k - 1) * ChunkSize ELSE L
    IN  IF k = 1 THEN FileBeginLine(name, NoneV)
        ELSE IF k = n + 2 THEN FileEndLine
        ELSE Envelope(SubSeq(b64, (k - 2) * ChunkSize + 1, upto), ServerPassword)

\* lines are the first lines of that stream
IsStreamPrefix(lines, name, b64) ==
    /\ Len(lines) <= (Len(b64) + ChunkSize - 1) \div ChunkSize + 2
    /\ \A k \in 1..Len(lines) : lines[k] = ExpectedLine(name, b64, k)

\* lines are that stream: FileBegin, ceil(L / 512) chunk lines, FileEnd
IsStream(lines, name, b64) ==
    /\ IsStreamPrefix(lines, name, b64)
    /\ Len(lines) = (Len(b64) + ChunkSize - 1) \div ChunkSize + 2

\* the relay has not read the Download command yet
AskUnread ==
    /\ wire # <<>> /\ Head(wire).kind = "env"
    /\ StartsWith(Head(wire).text, "__CMD_DOWNLOAD__:")
UploadLines == IF AskUnread THEN Tail(wire) ELSE wire
UploadOver == x_pc = "sent"
DownloadOver == ~AskUnread /\ conn[ClientSock].pc = "read"

SpecCipher == InitCipher /\ [][NextCipher]_vars

SpecEnvelope == InitEnvelope /\ [][NextEnvelope]_vars

SpecLedger == InitLedger /\ [][NextLedger]_vars

---------------------------------------------------------------------------
(* Containment of one text in another: Python's  x in s  *)

Contains(s, x) ==
    \E i \in 0..(Len(s) - Len(x)) : SubSeq(s, i + 1, i + Len(x)) = x

---------------------------------------------------------------------------
(* Claims about the relay's sessions (Spec) *)

Running(c) == c.pc \in {"start", "read", "list", "loop"}
WritesTo(s) == {k \in DOMAIN sent : sent[k].to = s}
Others(cl, s) == {cl[i].sock : i \in 1..Len(cl)} \ {s}

(* C1: no two sessions of the registry have the same username; a connection
   that proposes the username of a registered session is refused (its socket
   is finished with) and is not in the registry, then or later. *)
C1_UniqueUsernames ==
    /\ \A i, j \in 1..Len(clients) :
          i # j => clients[i].user # clients[j].user /\ clients[i].sock # clients[j].sock
    /\ \A s \in Socks : InRegistry(clients, s) => Running(conn[s])
    /\ last.op = "reject" =>
          /\ Registered(last.before, last.arg)
          /\ ~InRegistry(clients, last.sock)
          /\ conn[last.sock].pc = "closed"
          /\ \A i \in 1..Len(clients) :
                \E j \in 1..Len(last.before) : clients[i] = last.before[j]

C1_Witness ==
    /\ last.op = "reject"
    /\ Registered(clients, last.arg)
    /\ sent = <<[to |-> last.sock,
                 line |-> Encrypt(TakenError(last.arg), ServerPassword),
                 ok |-> TRUE]>>
    /\ main_pc = "accept" /\ running

(* C2: when the relay accepts a chat line from a registered session S, every
   other session registered when the broadcast runs is written the message
   (one sendall of the envelope of "name: text") exactly once, and
   nothing is written to S. *)
C2_BroadcastFanOut ==
    (last.op = "chat" /\ InRegistry(last.before, last.sock)) =>
        LET S == last.sock
            text == ChatText(conn[S].user, last.arg)
        IN  /\ WritesTo(S) = {}
            /\ \A t \in Others(last.before, S) :
                  /\ Cardinality(WritesTo(t)) = 1
                  /\ \A k \in WritesTo(t) :
                        Decrypt(sent[k].line, ServerPassword, "reject") = DecOk(text)
            /\ Len(sent) = Cardinality(Others(last.before, S))

C2_Witness ==
    /\ last.op = "chat" /\ InRegistry(last.before, last.sock)
    /\ Len(last.before) = MaxConn
    /\ Len(sent) = MaxConn - 1
    /\ \A k \in DOMAIN sent : sent[k].ok /\ sent[k].to # last.sock

(* C19: whatever the username U of a registered session is, the plaintext
   the relay broadcasts for a chat message m of that session is U, a colon, a
   space and m. *)
C19_ChatPrefix ==
    (last.op = "chat" /\ InRegistry(last.before, last.sock)) =>
        \A k \in DOMAIN sent :
            sent[k].line
                = Encrypt(conn[last.sock].user \o <<": ">> \o last.arg, ServerPassword)

(* C9, as claimed: the relay leaves its accept loop and shuts down only on
   the operator's request, never because of an error of a client
   connection. *)
C9_NoClientErrorStopsRelay ==
    /\ ~running => exit_cause = "operator"
    /\ main_pc \in {"grace", "closing", "stopped"} => exit_cause = "operator"

(* C10, as claimed: after a read EOF or socket error on session S exactly S
   has left the registry: every other session is still registered. *)
C10_ExactlyThatSessionRemoved ==
    last.op = "eof" => clients = WithoutSock(last.before, last.sock)

(* C10, amended: after a read EOF or socket error on session S, S has left
   the registry and its socket is closed; every other session's handler is
   still running, and it is still registered unless the write of the leave
   notice to it failed; the leave notice is written once to each of them and
   nothing is tried again. *)
C10_OthersStayUnlessWriteFails ==
    last.op = "eof" =>
        LET S == last.sock IN
        /\ ~InRegistry(clients, S)
        /\ conn[S].pc = "closed" /\ ~conn[S].open
        /\ WritesTo(S) = {}
        /\ \A t \in Others(last.before, S) :
              /\ Running(conn[t])
              /\ Cardinality(WritesTo(t)) = 1
              /\ \A k \in WritesTo(t) : InRegistry(clients, t) <=> sent[k].ok
        /\ Len(sent) = Cardinality(Others(last.before, S))
        /\ \A i \in 1..Len(clients) :
              \E j \in 1..Len(last.before) : clients[i] = last.before[j]

C10_Witness ==
    /\ last.op = "eof"
    /\ InRegistry(last.before, last.sock)
    /\ Len(last.before) = MaxConn
    /\ Len(clients) = MaxConn - 1
    /\ \A k \in DOMAIN sent : sent[k].ok
    /\ running

\* the threads that are inside a with block of the registry's lock
InsideLock ==
    {s \in Socks : conn[s].pc \in HandlerLocked}
      \cup (IF main_pc \in MainLocked THEN {MainThread} ELSE {})

(* C26: a thread is at an access of the registry (the broadcast iteration
   and its removal of dead sessions, the unicast lookup, the target-exists
   check, the removal at handler exit, the duplicate check, the add, the
   close loop) only while it holds the registry's lock, and at most one
   thread is; the registry changes only in a step of the thread that holds
   the lock, so the add follows the duplicate check with no other access in
   between, and nothing is added or removed while another thread's broadcast
   iteration is in progress. *)
C26_RegistryUnderLock ==
    /\ [](/\ \A t \in InsideLock : clients_lock = HeldBy(t)
          /\ Cardinality(InsideLock) <= 1
          /\ clients_lock.held => clients_lock.by \in InsideLock)
    /\ [][clients' # clients =>
            /\ clients_lock.held
            /\ \A s \in Socks \ {clients_lock.by} : conn[s].pc # "lk_bcast"
            /\ main_pc = "lk_add" =>
                  ~Registered(clients, conn[main_sock].user)]_vars

C26_Witness ==
    /\ main_pc = "recv"
    /\ \E s \in Socks :
          /\ conn[s].pc = "lk_bcast" /\ conn[s].iter = 2
          /\ clients_lock = HeldBy(s)
          /\ conn[main_sock].pc = "handshake"

(* C11: a line from a session outside a file reception that does not decrypt
   to a message is dropped: nothing is written to anybody, the registry is
   as it was, the session is still registered with its socket open and its
   handler goes on with the next line. *)
C11_UndecryptableLineDropped ==
    (last.op = "drop" /\ InRegistry(last.before, last.sock)) =>
        /\ sent = <<>>
        /\ clients = last.before
        /\ Running(conn[last.sock])
        /\ conn[last.sock].open \/ main_pc \in {"closing", "stopped"}

(* C12: when a connection proposes a registered username, the relay writes
   one rejection envelope to it and is through with it: no handler runs for
   it, nothing else is written to anybody, the registry is as it was, the
   session holding the name is still registered with its handler running,
   and the relay goes on accepting. *)
C12_DuplicateRejectedQuietly ==
    last.op = "reject" =>
        /\ Len(sent) = 1
        /\ sent[1].to = last.sock
        /\ Decrypt(sent[1].line, ServerPassword, "reject") = DecOk(TakenError(last.arg))
        /\ conn[last.sock].pc = "closed"
        /\ clients = last.before
        /\ \A i \in 1..Len(clients) :
              clients[i].user = last.arg => Running(conn[clients[i].sock])
        /\ main_pc = "accept" /\ exit_cause # "error"

(* C13: the username the relay takes for the client's connection is the
   first line the client sent, or the placeholder when that line is empty,
   and every line the client sent after it is still waiting to be read by
   the handler. *)
C13_UsernameIsFirstLine ==
    (last.op \in {"register", "reject"} /\ Wired(last.sock)) =>
        /\ last.arg = IF Strip(x_user) = <<>> THEN Placeholder(last.sock)
                      ELSE Strip(x_user)
        /\ Len(wire) = x_i

---------------------------------------------------------------------------
(* Claims about the relay's file handling (SpecFiles, SpecTransfer) *)

\* the bytes a receiver decodes from the chunk lines of a stream
RECURSIVE StreamBytes(_)
StreamBytes(writes) ==
    IF writes = <<>> THEN <<>>
    ELSE B64Decode(Decrypt(Head(writes).line, ServerPassword, "reject").text).bytes
            \o StreamBytes(Tail(writes))

IsMarker(line) == IsFileBegin(line) \/ IsFileEnd(line)

(* C3: once the ledger holds the record of a completed private upload of f
   by U for R, a download request for f from a session named neither U nor R
   is answered with one envelope to the requester, an error naming U and R,
   and no file marker or chunk; a request from U or R is answered with the
   file stream (header, the chunks of the file's base64, end marker).  The
   requester's handler goes on reading and its socket stays open. *)
C3_DownloadAuthorization ==
    (/\ last.op = "download"
     /\ last.arg \in DOMAIN permissions
     /\ permissions[last.arg].for.some
     /\ WriteOk(conn, last.sock)) =>
        LET q == last.sock
            f == last.arg
            U == permissions[f].uploader
            R == permissions[f].for.v
        IN  /\ conn[q].pc = "read" /\ conn[q].open
            /\ \A k \in DOMAIN sent : sent[k].to = q /\ sent[k].ok
            /\ IF conn[q].user \notin {U, R}
               THEN /\ Len(sent) = 1
                    /\ ~IsMarker(sent[1].line)
                    /\ LET text == Decrypt(sent[1].line, ServerPassword, "reject").text IN
                          /\ StartsWith(text, "Error: Cannot download '")
                          /\ Contains(text, f) /\ Contains(text, U) /\ Contains(text, R)
               ELSE /\ Len(sent) >= 2
                    /\ sent[1].line = FileBeginLine(f, NoneV)
                    /\ sent[Len(sent)].line = FileEndLine
                    /\ IsFile(dir, f)
                    /\ StreamBytes(SubSeq(sent, 2, Len(sent) - 1)) = FileBytes(dir, inodes, f)

C3_Witness ==
    /\ last.op = "download" /\ last.arg = doc
    /\ doc \in DOMAIN permissions
    /\ permissions[doc].uploader = alice /\ permissions[doc].for = Some(bob)
    /\ conn[last.sock].user = carol
    /\ Len(sent) = 1 /\ sent[1].ok /\ sent[1].to = last.sock
    /\ FileBytes(dir, inodes, doc) # <<>>

\* the names in the folder that are not temporary sinks
FinalNames(d) == {q \in DOMAIN d : \A f \in RelayFiles : q # TmpPath(f)}

(* C14: the ledger and the set of final files change only in a step in which
   a FileEnd completes the reception that a FileBegin started on the same
   connection; that step renames the sink to the final name and writes the
   record of that name with the connection's username as uploader and the
   FileBegin's target (absent when none was given) as recipient, leaving the
   other records alone.  FileBegin alone, an Upload command and a FileEnd
   without a reception change neither. *)
C14_RecordOnCompletedUpload ==
    [][/\ (permissions' # permissions \/ FinalNames(dir') # FinalNames(dir))
            => last'.op = "file_end"
       /\ last'.op = "file_end" =>
            LET s == last'.sock
                f == last'.arg
            IN  /\ conn[s].pc = "read"
                /\ conn[s].file_name = Some(f) /\ conn[s].temp.some
                /\ IsFile(dir, TmpPath(f))
                /\ IsFile(dir', f) /\ ~IsFile(dir', TmpPath(f))
                /\ dir'[f] = dir[TmpPath(f)]
                /\ f \in DOMAIN permissions'
                /\ permissions'[f].uploader = conn[s].user
                /\ permissions'[f].for = conn[s].file_target
                /\ permissions'[f].size = Len(FileBytes(dir', inodes', f))
                /\ \A g \in DOMAIN permissions' \ {f} :
                      g \in DOMAIN permissions /\ permissions'[g] = permissions[g]
                /\ LoadPermissions(metadata') = permissions'
      ]_vars

C14_Witness ==
    /\ last.op = "file_end" /\ last.arg = doc
    /\ permissions[doc].uploader = alice
    /\ permissions[doc].for = Some(bob)
    /\ IsFile(dir, doc) /\ ~IsFile(dir, TmpPath(doc))
    /\ FileBytes(dir, inodes, doc) # <<>>

PlainOf(w) == Decrypt(w.line, ServerPassword, "reject")

\* session s is receiving a file privately, of which session q is neither the
\* uploader nor the recipient
PrivateInProgress(s, q) ==
    /\ Receiving(conn[s]) /\ Truthy(conn[s].file_target)
    /\ conn[q].user \notin {conn[s].user, conn[s].file_target.v}

(* C25: the relay writes no file stream (no marker, no chunk) in answer to a
   Download from a session that is neither uploader nor recipient of a
   private upload, when the name asked for is the upload's final name or the
   name of its temporary sink: neither while the upload is in progress nor
   once it is recorded in the ledger. *)
C25_PrivateBytesStayPrivate ==
    last.op = "download" =>
        LET q == last.sock
            asked == last.arg
            streamed == \E k \in DOMAIN sent : IsMarker(sent[k].line)
        IN  /\ \A s \in Socks \ {q} :
                  (/\ PrivateInProgress(s, q)
                   /\ asked \in {conn[s].file_name.v, TmpPath(conn[s].file_name.v)})
                      => ~streamed
            /\ (/\ asked \in DOMAIN permissions
                 /\ Truthy(permissions[asked].for)
                 /\ conn[q].user \notin {permissions[asked].uploader,
                                          permissions[asked].for.v})
                      => ~streamed

\* the handler of socket s has read a FileBegin and not yet the FileEnd after
\* it: its sink is open
BetweenMarkers(s) == conn[s].temp.some

(* C24: a line that the relay's handler reads between a FileBegin and the
   next FileEnd of its connection is never broadcast as a chat message and
   never dispatched as a command: no chat and no download is handled for a
   connection whose reception is in progress. *)
C24_ChunksNotMessages ==
    last.op \in {"chat", "download"} => ~BetweenMarkers(last.sock)
SocksNamed(cl, u) == {cl[i].sock : i \in {j \in 1..Len(cl) : cl[j].user = u}}

(* C15: when a FileEnd completes an upload of f by S for target T, the
   confirmation is written to S and the private-file notice to T's session,
   once each, and nothing is written to any other session; when the upload
   names no target (no '@', or nothing after it), the public notice is
   written once to every registered session. *)
C15_UploadNotifications ==
    last.op = "file_end" =>
        LET S == last.sock
            f == last.arg
            u == permissions[f].uploader
            T == permissions[f].for
            all == {last.before[i].sock : i \in 1..Len(last.before)}
        IN  IF Truthy(T)
            THEN /\ \A k \in DOMAIN sent :
                      \/ sent[k].to = S /\ PlainOf(sent[k]) = DecOk(PrivateConfirm(f, T.v))
                      \/ /\ sent[k].to \in SocksNamed(last.before, T.v)
                         /\ PlainOf(sent[k]) = DecOk(PrivateNotice(u, f))
                 /\ Len(sent) = Cardinality(all \cap {S})
                                  + Cardinality(SocksNamed(last.before, T.v))
            ELSE /\ \A t \in all : Cardinality(WritesTo(t)) = 1
                 /\ \A k \in DOMAIN sent :
                      sent[k].to \in all /\ PlainOf(sent[k]) = DecOk(PublicNotice(u, f))

C15_Witness ==
    /\ last.op = "file_end"
    /\ permissions[last.arg].for = Some(bob)
    /\ Len(last.before) = 2
    /\ Len(sent) = 2 /\ sent[1].ok /\ sent[2].ok
    /\ sent[1].to = last.sock /\ sent[2].to # last.sock

(* C17: a client that has read the shutdown notice has displayed it and has
   terminated, whatever its receive loop was doing when the line came. *)
C17_ShutdownNoticeTerminates ==
    (\E i \in 1..Len(rx_done) : rx_done[i] = Encrypt(ShutdownNotice, ServerPassword)) =>
        /\ rx_pc = "exited"
        /\ rx_shown # <<>> /\ rx_shown[Len(rx_shown)] = ShutdownNotice

ShutdownBegun == main_pc \in {"grace", "closing", "stopped"}

(* C16 as stated: on shutdown nothing is accepted or registered once the
   notice is being broadcast; the notice is written to every session that is
   registered, none of whose sockets is closed yet; and when the listening
   socket is about to be closed, every session that was registered at
   shutdown has its socket closed, whether its notice arrived or not. *)
C16_ShutdownOrder ==
    /\ ShutdownBegun =>
          /\ main_sock = 0
          /\ \A s \in Socks : conn[s].pc # "handshake"
          /\ \A s \in Socks : InRegistry(clients, s) /\ main_pc # "stopped" => s \in notified.socks
    /\ last.op = "shutdown" =>
          /\ Len(sent) = Len(last.before)
          /\ \A i \in 1..Len(sent) :
                /\ sent[i].to = last.before[i].sock
                /\ PlainOf(sent[i]) = DecOk(ShutdownNotice)
                /\ conn[sent[i].to].open
    /\ main_pc = "closing" => \A s \in notified.socks : ~conn[s].open

(* C16, amended: as above, but the close loop closes the sessions that are
   still registered after the grace period; a session registered at shutdown
   that is still open when the listening socket is closed is one that a
   failed write has dropped from the registry. *)
C16_ShutdownOrderOfRegistered ==
    /\ ShutdownBegun =>
          /\ main_sock = 0
          /\ \A s \in Socks : conn[s].pc # "handshake"
          /\ \A s \in Socks : InRegistry(clients, s) /\ main_pc # "stopped" => s \in notified.socks
    /\ last.op = "shutdown" =>
          /\ Len(sent) = Len(last.before)
          /\ \A i \in 1..Len(sent) :
                /\ sent[i].to = last.before[i].sock
                /\ PlainOf(sent[i]) = DecOk(ShutdownNotice)
                /\ conn[sent[i].to].open
    /\ main_pc = "closing" =>
          /\ \A s \in Socks : InRegistry(clients, s) => ~conn[s].open
          /\ \A s \in notified.socks :
                conn[s].open => ~conn[s].wok /\ ~InRegistry(clients, s)

C16_Witness ==
    /\ main_pc = "closing"
    /\ Cardinality(notified.socks) = 2
    /\ \A s \in notified.socks : InRegistry(clients, s) /\ ~conn[s].open /\ conn[s].wok

IsMark(tok) == tok \in {AllowedMark, DeniedMark}
\* where the i-th entry of a listing begins
NthMark(text, i) ==
    CHOOSE k \in 1..Len(text) :
        IsMark(text[k]) /\ Cardinality({j \in 1..k : IsMark(text[j])}) = i

(* C18: a List command from session U is answered: the handler goes on, and
   if U's connection takes the write, one reply is written, to U only; the
   reply has one entry for every file os.listdir found in the shared folder
   (files that are still there), which begins with
   the mark 'allowed' if can_download(file, U) allows and with the mark
   'denied' if not, followed by the file's name.  list_files_for_user returns
   one triple per filename, in the order given, whose flag is can_download's
   decision. *)
C18_ListReply ==
    /\ last.op = "list" => conn[last.sock].pc # "closed"
    /\ (last.op = "list" /\ WriteOk(conn, last.sock)) =>
        LET u == conn[last.sock].user
            files == last.arg
            text == PlainOf(sent[1]).text
            marks == SelectSeq(text, IsMark)
            triples == ListFilesForUser(permissions, u, files)
        IN  /\ Len(sent) = 1 /\ sent[1].to = last.sock /\ sent[1].ok
            /\ PlainOf(sent[1]).tag = "ok"
            /\ \A i, j \in 1..Len(files) : i # j => files[i] # files[j]
            /\ \A i \in 1..Len(files) : IsFile(dir, files[i])
            /\ Len(marks) = Len(files)
            /\ \A i \in 1..Len(files) :
                  /\ marks[i] = IF CanDownload(permissions, files[i], u)[1]
                                THEN AllowedMark ELSE DeniedMark
                  /\ SubSeq(text, NthMark(text, i) + 1, NthMark(text, i) + Len(files[i]))
                        = files[i]
            /\ files = <<>> => text = <<"Shared folder is empty">>
            /\ Len(triples) = Len(files)
            /\ \A i \in 1..Len(files) :
                  /\ triples[i][1] = files[i]
                  /\ triples[i][3] = CanDownload(permissions, files[i], u)[1]

LoopsStarted == rx_pc # "off" \/ x_pc \notin {"hello", "chatting"}

(* C21: the client writes nothing before its username line, which is the
   raw username; neither loop is started before that line is written; every
   line written after it is a FileBegin or FileEnd marker in plaintext or a
   cipher envelope. *)
C21_UsernameFirst ==
    /\ x_pc = "hello" => wire = <<>>
    /\ x_pc # "hello" => wire # <<>> /\ wire[1] = PlainLine(x_user)
    /\ LoopsStarted => x_pc # "hello"
    /\ \A i \in 2..Len(wire) :
          \/ wire[i].kind = "plain" /\ (IsFileBegin(wire[i]) \/ IsFileEnd(wire[i]))
          \/ wire[i].kind = "env"

C21_Witness ==
    /\ x_pc = "sent" /\ rx_pc = "read"
    /\ Len(wire) = 5
    /\ wire[1] = PlainLine(alice)
    /\ IsFileBegin(wire[2]) /\ wire[3].kind = "env" /\ wire[4].kind = "env"
    /\ IsFileEnd(wire[5])

\* the lines of one file on the wire
ExpectedStream(f, t, bytes) ==
    <<FileBeginLine(f, t)>>
      \o [k \in 1..Len(Chunks(B64Encode(bytes), ChunkSize)) |->
            Encrypt(Chunks(B64Encode(bytes), ChunkSize)[k], ServerPassword)]
      \o <<FileEndLine>>

(* C20: once the client has dealt with the command 'upload <file> @<user>'
   for a file of its outbox, it has written the marker '__FILE__:<file>@<user>',
   the file's chunks and '__END__'; with the command without '@<user>' it has
   written the same with a marker without target. *)
C20_UploadCommand ==
    \A f \in TransferNames, t \in TransferTargets :
        (x_msg = UploadCommand(f, t) /\ x_name = f /\ x_pc \in {"sent", "done"}) =>
            wire = ExpectedStream(f, t, x_file)

(* C5: a file of N bytes sent by the client as a header line, one encrypted
   line per 512-character chunk of its base64 and an end marker is, once the
   relay has read all of these lines, in the shared folder under its name
   with exactly the bytes sent, for N = 0 and for sizes around one chunk. *)
C5_FileRoundTrip ==
    (x_pc = "sent" /\ wire = <<>>) =>
        /\ IsFile(dir, x_name)
        /\ FileBytes(dir, inodes, x_name) = x_file
        /\ ~IsFile(dir, TmpPath(x_name))
        /\ x_name \in DOMAIN permissions
        /\ permissions[x_name].size = Len(x_file)

C5_Witness ==
    /\ x_pc = "sent" /\ wire = <<>>
    /\ Len(x_file) = 385 /\ x_i = 2
    /\ FileBytes(dir, inodes, x_name) = x_file

---------------------------------------------------------------------------
(* Claims about the ledger (SpecLedger) *)

Askers == Users \cup {<<"dave">>}
AskedFiles == LedgerFiles \cup {<<"never-added">>}

(* C4: can_download(f, u) is allowed as public when f has no record or its
   record has no recipient; else allowed with the uploader's reason when u is
   the uploader; else allowed with the recipient's reason (naming the
   uploader) when u is the recipient; else denied with a reason that names
   the uploader and the recipient.  A filename never added is allowed for
   anyone. *)
C4_CanDownloadRule ==
    \A f \in AskedFiles, u \in Askers :
        LET r == CanDownload(permissions, f, u) IN
        IF f \notin DOMAIN permissions
        THEN r = <<TRUE, <<"Public file">>>>
        ELSE LET up == permissions[f].uploader
                 to == permissions[f].for
             IN  IF ~to.some THEN r = <<TRUE, <<"Public file">>>>
                 ELSE IF u = up THEN r = <<TRUE, <<"You uploaded this file">>>>
                 ELSE IF u = to.v
                      THEN /\ r[1]
                           /\ Contains(r[2], <<"File shared with you by ">>)
                           /\ Contains(r[2], up)
                 ELSE /\ ~r[1]
                      /\ Contains(r[2], <<"Private file (from ">>)
                      /\ Contains(r[2], up)
                      /\ Contains(r[2], to.v)

C4_Witness ==
    /\ doc \in DOMAIN permissions
    /\ permissions[doc].uploader = alice
    /\ permissions[doc].for = Some(bob)
    /\ CanDownload(permissions, doc, alice)[1]
    /\ CanDownload(permissions, doc, bob)[1]
    /\ ~CanDownload(permissions, doc, carol)[1]
    /\ pic \notin DOMAIN permissions
    /\ CanDownload(permissions, pic, carol)[1]

\* the annotation is a 'public' one: the filename, then a token of "(public"
PublicInfo(info, f) ==
    /\ Len(info) > Len(f) /\ SubSeq(info, 1, Len(f)) = f
    /\ info[Len(f) + 1] \in {" (public)", " (public, uploaded by "}

(* C23: for every ledger state, filename f and viewer u, get_file_info gives
   a 'public' annotation exactly when can_download allows f as public; the
   annotation 'private, for <recipient>' exactly when can_download allows u
   as the uploader and 'private, from <uploader>' exactly when it allows u as
   the recipient; and '<f> (private)', nothing else, exactly when
   can_download denies u. *)
C23_InfoFollowsRule ==
    \A f \in AskedFiles, u \in Askers :
        LET r == CanDownload(permissions, f, u)
            info == FileInfo(permissions, f, u)
        IN  /\ PublicInfo(info, f) <=> r = <<TRUE, <<"Public file">>>>
            /\ (r[1] /\ r[2] = <<"You uploaded this file">>) <=>
                  (/\ f \in DOMAIN permissions
                   /\ permissions[f].for.some
                   /\ info = f \o <<" (private, for ">> \o permissions[f].for.v \o <<")">>)
            /\ (r[1] /\ r[2] # <<"Public file">> /\ r[2] # <<"You uploaded this file">>) <=>
                  (/\ f \in DOMAIN permissions
                   /\ info = f \o <<" (private, from ">> \o permissions[f].uploader \o <<")">>)
            /\ ~r[1] <=> info = f \o <<" (private)">>

C23_Witness ==
    /\ doc \in DOMAIN permissions /\ pic \in DOMAIN permissions
    /\ permissions[doc].uploader = alice /\ permissions[doc].for = Some(bob)
    /\ ~permissions[pic].for.some
    /\ FileInfo(permissions, doc, alice) = <<"doc", " (private, for ", "bob", ")">>
    /\ FileInfo(permissions, doc, bob) = <<"doc", " (private, from ", "alice", ")">>
    /\ FileInfo(permissions, doc, carol) = <<"doc", " (private)">>
    /\ ~CanDownload(permissions, doc, carol)[1]
    /\ PublicInfo(FileInfo(permissions, pic, carol), pic)

(* C8: after any sequence of add_file and remove_file calls the persisted
   file holds the in-memory mapping, so a ledger freshly loaded from it gives
   the same can_download decision and reason for every filename and user. *)
C8_PersistedEqualsMemory ==
    /\ LoadPermissions(metadata) = permissions
    /\ \A f \in AskedFiles, u \in Askers :
          CanDownload(LoadPermissions(metadata), f, u)
              = CanDownload(permissions, f, u)

C8_Witness ==
    /\ metadata.state = "ok"
    /\ DOMAIN permissions = {doc, pic}
    /\ permissions[doc].for = Some(bob)
    /\ ~permissions[pic].for.some
    /\ ~CanDownload(LoadPermissions(metadata), doc, carol)[1]

---------------------------------------------------------------------------
(* Claims about the cipher (SpecCipher, SpecEnvelope) *)

(* C22: encrypt returns an envelope, never a failure value, for every input
   including the empty string, and the envelope it returns is not empty and
   holds no line feed and no carriage return. *)
C22_EnvelopeOneLine ==
    c_pc = "enveloped" =>
        /\ c_out.tag = "ok"
        /\ c_out.text # <<>>
        /\ \A i \in 1..Len(c_out.text) : c_out.text[i] \notin {"\n", "\r"}

(* C6: for every plaintext P, whatever its characters, and every password K,
   decrypt(encrypt(P, K), K) returns exactly P. *)
C6_RoundTrip ==
    (c_pc = "decrypted" /\ c_pass2 = c_pass) => c_out = DecOk(c_plain)

=============================================================================
